---- MODULE Spec2Model ----
(***************************************************************************)
(* Edit-lock registry, change notification bus and per-connection session  *)
(* coordinator of the alive package (src/alive/store.py,                   *)
(* src/alive/components/editable_field.py, src/alive/views.py).            *)
(*                                                                         *)
(* The module holds several specifications over one set of variables:      *)
(*   SpecReg   the lock registry driven by arbitrary calls                  *)
(*   SpecRace  two acquire_lock calls at statement granularity              *)
(*   Spec      sessions of a generated model view (field edits, delete,     *)
(*             disconnect, bus events)                                      *)
(*   FairSpec  the edit and save handlers of Spec under the event loop's     *)
(*             scheduling                                                   *)
(*   SpecInline  the same view, editing the rows of its inline relation     *)
(*   SpecDisc  the same view, taking locks of both kinds and disconnecting  *)
(*   SpecInfo  the same view, handling the events of the bus                *)
(*   SpecShared  the view of a model next to the view of its inline target  *)
(*   SpecCards   connections to CardsLiveView and its card_store            *)
(*   SpecTxn   a writer's transactions and the post_save / post_delete      *)
(*             handlers of alive.signals                                    *)
(*   SpecMap   sessions of the map view (map detail popup edits)            *)
(*   SpecSignals   row writes of AliveMixin models and the events published *)
(*   SpecOrder   SharedState's card list operations (src/state.py)          *)
(*   SpecDice, SpecAssign   the handlers that work on the active Situation  *)
(*   SpecLevel   the handlers that adjust a level by a delta                *)
(*   SpecMapInfo  the map view, with Situation rows deleted by another view  *)
(* A specification leaves the variables of the others at their initial     *)
(* value.                                                                   *)
(***************************************************************************)
EXTENDS Integers, Sequences, FiniteSets, TLC

VARIABLES
    locks,      \* _edit_locks: lock key -> holder session id (None = unheld)
    owns,       \* ghost: <<key, sid>> such that sid got True from acquire_lock
                \*        and has not called release_lock / release_all_locks since
    last,       \* ghost: the last registry call and what it returned
    racePc,     \* SpecRace: position of each caller inside acquire_lock
    raceSeen,   \* SpecRace: current_holder as read by each caller (line 22)
    raceRet,    \* SpecRace: value returned to each caller
    raceKey,    \* SpecRace: the key each caller passed
    db,         \* the relational store: field key -> committed value (Missing = no row)
    conn,       \* which sessions are mounted and connected
    editing,    \* socket.context.editing of each session: edit key -> draft
    items,      \* socket.context.items of each session: the rendered field data
    inbox,      \* events published on a subscribed channel, not yet handled
    pc,         \* the handler a session is suspended in (await of a store call)
    ev,         \* ghost: the last handler step, what it saw and what it broadcast
    map_ctx,    \* map view: map_detail, map_detail_editing and map_detail_draft of
                \*           each session's socket.context
    cards,      \* SpecCards: card_store.edit_locks, the browser sessions and the
                \*            context and inbox of each connection to CardsLiveView
    txn,        \* SpecTxn: the writer's database connection (atomic block, writes
                \*          not yet committed, run_on_commit) and alive.signals
    game,       \* SpecDice: the rows of one Situation (dice, cards, snapshot cards,
                \*           assignments, dice_assigned), each session's context and
                \*           the position of its handler's worker thread
    levels,     \* SpecLevel: the level of a through row, a CharacterCard and a
                \*            SituationCard, and the last adjustment handled
    card_order  \* SpecOrder: SharedState.cards as the list of card ids, and the last
                \*            call made on it

regVars == <<locks, owns, last>>
raceVars == <<racePc, raceSeen, raceRet, raceKey>>
sessVars == <<db, conn, editing, items, inbox, pc, ev, map_ctx>>
gameVars == <<game, levels, card_order>>
extVars == <<cards, txn, gameVars>>

(***************************************************************************)
(* Bounds                                                                  *)
(***************************************************************************)
NumSessions == 2
NumRows == 1
MaxInbox == 3

Sessions == 1..NumSessions
\* Python's None, as a holder: no session has this id
None == 0
RowIds == 1..NumRows

\* model labels (model._meta.label_lower) used as entity kinds
ItemLabel == "app.item"
TargetLabel == "app.target"
SituationLabel == "cards.situation"

\* lock keys are (model_label, item_id, field_name)
ItemKeys == {<<ItemLabel, r, "title">> : r \in RowIds}
TargetKeys == {<<TargetLabel, r, f>> : r \in RowIds, f \in {"name", "level"}}
NameKeys == {k \in TargetKeys : k[3] = "name"}
SituationKeys == {<<SituationLabel, r, f>> : r \in RowIds, f \in {"name", "notes"}}
LockKeys == ItemKeys \cup TargetKeys \cup SituationKeys

\* the order in which a dict iteration visits the keys
RECURSIVE SetToSeq(_)
SetToSeq(S) ==
    IF S = {} THEN <<>>
    ELSE LET x == CHOOSE y \in S : TRUE IN <<x>> \o SetToSeq(S \ {x})

KeyOrder == SetToSeq(LockKeys)

NoLocks == [k \in LockKeys |-> None]

\* field values a user types, and what the store can hold
Values == {"b"}
Missing == "<missing>"
NoDraft == "<nodraft>"

\* the keys a generated view of ItemLabel shows: its own rows and its inline targets
ViewKeys == ItemKeys \cup TargetKeys

\* the key of a draft in socket.context.editing: f"{item_id}:{field_name}" for a field
\* of the view's own model, f"target:{target_pk}:{field_name}" for an inline target
edit_key(k) == IF k[1] = TargetLabel THEN <<"target", k[2], k[3]>> ELSE <<k[2], k[3]>>

EditKeys == {edit_key(k) : k \in ViewKeys}
NoDrafts == [e \in EditKeys |-> NoDraft]

Idle == [at |-> "idle"]
NoEv == [op |-> "none", sid |-> None, key |-> <<>>, holder |-> None, draft |-> NoDraft,
         wrote |-> FALSE, sent |-> <<>>, event |-> <<>>]

\* ModelContext defaults: map_detail = {}, map_detail_editing = "", map_detail_draft = ""
NoDetail == [id |-> None, name |-> "", notes |-> "",
             name_locked |-> FALSE, notes_locked |-> FALSE]
ClosedCtx == [map_detail |-> NoDetail, map_detail_editing |-> "", map_detail_draft |-> ""]

\* card_store.edit_locks is keyed by (card_id, field_name)
CardKeys == {<<r, f>> : r \in RowIds, f \in {"title", "content"}}

\* CardsLiveView before any mount: no "id" in any browser session, no connection,
\* edit_locks = {}
NoCards ==
    [session |-> [b \in Sessions |-> None],
     session_id |-> [c \in Sessions |-> None],
     edit_locks |-> [k \in CardKeys |-> None],
     editing |-> [c \in Sessions |-> [k \in CardKeys |-> NoDraft]],
     cards |-> [c \in Sessions |-> <<>>],
     inbox |-> [c \in Sessions |-> <<>>]]

\* alive.signals at import (_event_loop = None) and a connection in autocommit mode
NoTxn ==
    [event_loop |-> FALSE, in_atomic |-> FALSE, pending |-> <<>>,
     run_on_commit |-> <<>>, log |-> <<>>, ret |-> "none", raised |-> FALSE]

\* bounds of SpecDice, SpecLevel and SpecOrder
NumFaces == 2
MaxDelta == 12
NumCards == 4

\* views.py: max(1, min(10, level + delta)); CharacterCard.objects.create(level=4)
MinLevel == 1
MaxLevel == 10
DefaultLevel == 4

\* one Situation without dice and without cards; every session's context shows it
\* and no handler is running
NoJob == [at |-> "idle"]
NoGame ==
    [sit |-> [exists |-> TRUE, dice |-> <<>>, cards |-> {}, situation_cards |-> <<>>,
              assignments |-> <<>>, dice_assigned |-> FALSE],
     ctx |-> [s \in Sessions |->
                 [situation_id |-> 1, situation_dice |-> <<>>, notified |-> FALSE]],
     job |-> [s \in Sessions |-> NoJob],
     last |-> [op |-> "none", sid |-> None, arg |-> None]]

\* the rows whose level the handlers adjust, at the level they are created with
NoLevels ==
    [through |-> DefaultLevel, character_card |-> DefaultLevel,
     situation_card |-> DefaultLevel,
     last |-> [op |-> "none", delta |-> 0, old |-> DefaultLevel]]

\* SharedState.cards with the cards 1..NumCards in creation order
NoOrder ==
    [cards |-> [i \in 1..NumCards |-> i],
     last |-> [op |-> "none", card_id |-> 0, arg |-> 0, after |-> FALSE, ret |-> FALSE,
               before |-> [i \in 1..NumCards |-> i]]]

SessInit0 ==
    /\ game = NoGame
    /\ levels = NoLevels
    /\ card_order = NoOrder
    /\ cards = NoCards
    /\ txn = NoTxn
    /\ db = [k \in LockKeys |-> "a"]
    /\ conn = [s \in Sessions |-> FALSE]
    /\ editing = [s \in Sessions |-> NoDrafts]
    /\ items = [s \in Sessions |-> <<>>]
    /\ inbox = [s \in Sessions |-> <<>>]
    /\ pc = [s \in Sessions |-> Idle]
    /\ ev = NoEv
    /\ map_ctx = [s \in Sessions |-> ClosedCtx]

(***************************************************************************)
(* Lock registry: src/alive/store.py                                       *)
(***************************************************************************)
\* a plausible bug: the holder is overwritten without looking at it
acquire_lock_nocheck(L, key, session_id) ==
    [locks |-> [L EXCEPT ![key] = session_id], ret |-> TRUE]

\* a plausible bug: a holder that asks again is refused
acquire_lock_noreentry(L, key, session_id) ==
    IF L[key] = None THEN [locks |-> [L EXCEPT ![key] = session_id], ret |-> TRUE]
    ELSE [locks |-> L, ret |-> FALSE]

\* a plausible bug: the lock is scoped per row, not per field
acquire_lock_rowwide(L, key, session_id) ==
    LET row == {k \in DOMAIN L : k[1] = key[1] /\ k[2] = key[2]} IN
    IF \E k \in row : L[k] \notin {None, session_id}
        THEN [locks |-> L, ret |-> FALSE]
    ELSE [locks |-> [k \in DOMAIN L |-> IF k \in row THEN session_id ELSE L[k]],
          ret |-> TRUE]

acquire_lock(L, key, session_id) ==
    LET current_holder == L[key] IN
    IF current_holder = None
        THEN [locks |-> [L EXCEPT ![key] = session_id], ret |-> TRUE]
    ELSE IF current_holder = session_id
        THEN [locks |-> L, ret |-> TRUE]
    ELSE [locks |-> L, ret |-> FALSE]

\* a plausible bug: the entry is left in place by the release
release_lock_noop(L, key, session_id) ==
    [locks |-> L, ret |-> L[key] = session_id]

\* a plausible bug: the entry is removed whoever holds it
release_lock_anyholder(L, key, session_id) ==
    [locks |-> [L EXCEPT ![key] = None], ret |-> L[key] # None]

release_lock(L, key, session_id) ==
    IF L[key] = session_id
        THEN [locks |-> [L EXCEPT ![key] = None], ret |-> TRUE]
    ELSE [locks |-> L, ret |-> FALSE]

get_lock_holder(L, key) == L[key]

\* a plausible bug: only the first key of the session is collected
keys_to_remove_first(L, session_id, order) ==
    LET held == SelectSeq(order, LAMBDA k : L[k] = session_id) IN
    IF held = <<>> THEN <<>> ELSE <<Head(held)>>

\* keys_to_remove: the keys held by session_id, in iteration order
RECURSIVE keys_to_remove(_, _, _)
keys_to_remove(L, session_id, order) ==
    IF order = <<>> THEN <<>>
    ELSE (IF L[Head(order)] = session_id THEN <<Head(order)>> ELSE <<>>)
             \o keys_to_remove(L, session_id, Tail(order))

\* the loop of release_all_locks: delete each key and append it to released
RECURSIVE release_loop(_, _, _)
release_loop(L, todo, released) ==
    IF todo = <<>> THEN [locks |-> L, released |-> released]
    ELSE release_loop([L EXCEPT ![Head(todo)] = None], Tail(todo),
                      Append(released, Head(todo)))

release_all_locks(L, session_id) ==
    release_loop(L, keys_to_remove(L, session_id, KeyOrder), <<>>)

SeqRange(q) == {q[i] : i \in 1..Len(q)}

(***************************************************************************)
(* SpecReg: the registry under arbitrary calls by any session              *)
(***************************************************************************)
\* ghost: a registry call and what it returned, with the two calls made before it
NoBrief == [op |-> "none", key |-> <<>>, sid |-> None, ret |-> FALSE]
NoCall == [op |-> "none", key |-> <<>>, sid |-> None, ret |-> FALSE, released |-> <<>>,
           hist |-> <<NoBrief, NoBrief>>]
Brief(c) == [op |-> c.op, key |-> c.key, sid |-> c.sid, ret |-> c.ret]
Call(op, k, s, ret, released) ==
    [op |-> op, key |-> k, sid |-> s, ret |-> ret, released |-> released,
     hist |-> <<Brief(last), last.hist[1]>>]

InitReg ==
    /\ locks = NoLocks
    /\ owns = {}
    /\ last = NoCall
    /\ racePc = [s \in Sessions |-> "idle"]
    /\ raceSeen = [s \in Sessions |-> None]
    /\ raceRet = [s \in Sessions |-> FALSE]
    /\ raceKey = [s \in Sessions |-> <<>>]
    /\ SessInit0

RegAcquire(k, s) ==
    LET r == acquire_lock(locks, k, s) IN
    /\ locks' = r.locks
    /\ owns' = IF r.ret THEN owns \cup {<<k, s>>} ELSE owns
    /\ last' = Call("acquire", k, s, r.ret, <<>>)
    /\ UNCHANGED <<raceVars, extVars, sessVars>>

RegRelease(k, s) ==
    LET r == release_lock(locks, k, s) IN
    /\ locks' = r.locks
    /\ owns' = owns \ {<<k, s>>}
    /\ last' = Call("release", k, s, r.ret, <<>>)
    /\ UNCHANGED <<raceVars, extVars, sessVars>>

RegGetHolder(k) ==
    /\ last' = Call("get", k, get_lock_holder(locks, k), FALSE, <<>>)
    /\ UNCHANGED <<locks, owns>>
    /\ UNCHANGED <<raceVars, extVars, sessVars>>

RegReleaseAll(s) ==
    LET r == release_all_locks(locks, s) IN
    /\ locks' = r.locks
    /\ owns' = {p \in owns : p[2] # s}
    /\ last' = Call("release_all", <<>>, s, FALSE, r.released)
    /\ UNCHANGED <<raceVars, extVars, sessVars>>

\* the keys the callers pass: fields of the rows of two entity kinds
RegKeys == ItemKeys \cup TargetKeys

NextReg ==
    \/ \E k \in RegKeys, s \in Sessions : RegAcquire(k, s)
    \/ \E k \in RegKeys, s \in Sessions : RegRelease(k, s)
    \/ \E k \in RegKeys : RegGetHolder(k)
    \/ \E s \in Sessions : RegReleaseAll(s)

vars == <<locks, owns, last, racePc, raceSeen, raceRet, raceKey,
         db, conn, editing, items, inbox, pc, ev, map_ctx, cards, txn,
         game, levels, card_order>>

SpecReg == InitReg /\ [][NextReg]_vars

\* C1: mutual exclusion. No key is owned by two distinct sessions at once, where a
\* session owns a key from the acquire_lock call that returned True to it until its
\* next release_lock of that key or release_all_locks; an acquire_lock by B on a key
\* owned by A # B returns False.
C1_MutualExclusion ==
    /\ \A k \in LockKeys : Cardinality({s \in Sessions : <<k, s>> \in owns}) <= 1
    /\ \A k \in LockKeys, s \in Sessions :
           <<k, s>> \in owns => get_lock_holder(locks, k) = s
    /\ (last.op = "acquire" /\ \E a \in Sessions : a # last.sid /\ <<last.key, a>> \in owns)
           => last.ret = FALSE

\* a second session was refused a key that the first one holds
C1_Witness ==
    /\ last.op = "acquire" /\ last.ret = FALSE
    /\ \E a \in Sessions : a # last.sid /\ <<last.key, a>> \in owns

\* C14: release_all completeness. After release_all_locks(A) no key is held by A,
\* the returned list holds exactly the keys A held right before the call, each once,
\* and the entries of the other sessions are unchanged.
C14_ReleaseAllComplete ==
    [][last'.op = "release_all" =>
           LET A == last'.sid
               held == {k \in LockKeys : get_lock_holder(locks, k) = A}
           IN
           /\ \A k \in LockKeys : get_lock_holder(locks', k) # A
           /\ \A k \in held : get_lock_holder(locks', k) = None
           /\ SeqRange(last'.released) = held
           /\ Len(last'.released) = Cardinality(held)
           /\ \A k \in LockKeys \ held : locks'[k] = locks[k]]_vars

\* release_all_locks has returned two keys while another session keeps its own
C14_Witness ==
    /\ last.op = "release_all"
    /\ Len(last.released) = 2
    /\ \A i \in 1..Len(last.released) : get_lock_holder(locks, last.released[i]) = None
    /\ \E k \in LockKeys : get_lock_holder(locks, k) \notin {None, last.sid}

\* C15: release ownership check. release_lock(key, A) removes the entry and returns
\* True exactly when the key is held by A; when the key is held by another session or
\* unheld it returns False and the registry is unchanged.
C15_ReleaseOwnership ==
    [][last'.op = "release" =>
           /\ last'.ret <=> (get_lock_holder(locks, last'.key) = last'.sid)
           /\ last'.ret => locks' = [locks EXCEPT ![last'.key] = None]
           /\ ~last'.ret => locks' = locks]_vars

\* a release_lock on a key held by another session returned False; that session
\* still holds the key
C15_Witness ==
    /\ last.op = "release" /\ ~last.ret
    /\ get_lock_holder(locks, last.key) \notin {None, last.sid}

\* the two calls in a row: c, and before it an acquire_lock with the same arguments
SameAcquire(c, p) ==
    p.op = "acquire" /\ p.key = c.key /\ p.sid = c.sid

\* C16: idempotent re-acquire. An acquire_lock(key, A) that directly follows an
\* acquire_lock(key, A) returns what the first returned and leaves the registry as
\* the first left it, with the one entry key -> A when they returned True; a
\* release_lock(key, A) directly after the two leaves the key unheld.
C16_IdempotentReacquire ==
    [][LET c == last'
           p == last'.hist[1]
           q == last'.hist[2]
       IN
       /\ (c.op = "acquire" /\ SameAcquire(c, p))
              => /\ c.ret = p.ret
                 /\ locks' = locks
                 /\ c.ret => get_lock_holder(locks', c.key) = c.sid
       /\ (c.op = "release" /\ SameAcquire(c, p) /\ SameAcquire(c, q) /\ q.ret)
              => /\ p.ret /\ c.ret
                 /\ get_lock_holder(locks', c.key) = None]_vars

\* acquire, acquire, release of one key by one session, all True; the key is unheld
C16_Witness ==
    /\ last.op = "release" /\ last.ret
    /\ SameAcquire(last, last.hist[1]) /\ last.hist[1].ret
    /\ SameAcquire(last, last.hist[2]) /\ last.hist[2].ret
    /\ get_lock_holder(locks, last.key) = None

RaceRead(s, k) ==
    /\ racePc[s] = "idle"
    /\ racePc' = [racePc EXCEPT ![s] = "read"]
    /\ raceKey' = [raceKey EXCEPT ![s] = k]
    /\ raceSeen' = [raceSeen EXCEPT ![s] = get_lock_holder(locks, k)]
    /\ UNCHANGED <<raceRet, locks, owns, last, sessVars, extVars>>

\* lines 23-28, on the value read at line 22
RaceWrite(s) ==
    /\ racePc[s] = "read"
    /\ racePc' = [racePc EXCEPT ![s] = "done"]
    /\ IF raceSeen[s] = None
           THEN /\ locks' = [locks EXCEPT ![raceKey[s]] = s]
                /\ raceRet' = [raceRet EXCEPT ![s] = TRUE]
           ELSE /\ locks' = locks
                /\ raceRet' = [raceRet EXCEPT ![s] = (raceSeen[s] = s)]
    /\ UNCHANGED <<raceKey, raceSeen, owns, last, sessVars, extVars>>

\* the caller is done with the key: release_lock, and it may call again
RaceRelease(s) ==
    /\ racePc[s] = "done"
    /\ racePc' = [racePc EXCEPT ![s] = "idle"]
    /\ locks' = release_lock(locks, raceKey[s], s).locks
    /\ raceRet' = [raceRet EXCEPT ![s] = FALSE]
    /\ raceSeen' = [raceSeen EXCEPT ![s] = None]
    /\ raceKey' = [raceKey EXCEPT ![s] = <<>>]
    /\ UNCHANGED <<owns, last, sessVars, extVars>>

NextRace ==
    \/ \E s \in Sessions, k \in LockKeys : RaceRead(s, k)
    \/ \E s \in Sessions : RaceWrite(s)
    \/ \E s \in Sessions : RaceRelease(s)

SpecRace == InitReg /\ [][NextRace]_vars

Channel(label) == "alive:" \o label
ItemChannel == Channel(ItemLabel)
TargetChannel == Channel(TargetLabel)

\* handle_info: store.channel and the channel of every inline target model
subscribed_channels == {ItemChannel, TargetChannel}

RefreshActions == {"state_changed", "locks_released", "item_created", "item_deleted"}

\* an event on the bus: the channel, the payload's action and key; by is a ghost
\* that names the session whose finished save_edit published a state_changed
Event(chan, action) == [chan |-> chan, action |-> action, key |-> <<>>, by |-> None]

SavedEvent(s) == [Event(ItemChannel, "state_changed") EXCEPT !.by = s]

\* DjangoDataStore.get_field_value / get_inline_target_field_value: None for no row
get_field_value(D, k) == D[k]

\* a plausible bug: the comparison with the session's own id is inverted
render_field_data_ownlock(k, raw_value, session_id, E, L) ==
    [value |-> raw_value,
     is_editing |-> E[edit_key(k)] # NoDraft,
     editing_value |-> IF E[edit_key(k)] # NoDraft THEN E[edit_key(k)] ELSE "",
     is_locked |-> get_lock_holder(L, k) = session_id]

render_field_data(k, raw_value, session_id, E, L) ==
    LET lock_holder == get_lock_holder(L, k) IN
    [value |-> raw_value,
     is_editing |-> E[edit_key(k)] # NoDraft,
     editing_value |-> IF E[edit_key(k)] # NoDraft THEN E[edit_key(k)] ELSE "",
     is_locked |-> lock_holder # None /\ lock_holder # session_id]

\* _build_items_data: the field data of every row the store returns
build_items_data(session_id, E, L, D) ==
    [k \in {x \in ViewKeys : D[x] # Missing} |->
        render_field_data(k, D[k], session_id, E, L)]

\* _refresh_view_async of session s on the state (E, L, D)
Refreshed(s, E, L, D) == [items EXCEPT ![s] = build_items_data(s, E[s], L, D)]

\* socket.broadcast / broadcast_change: every connected subscriber gets the events
Deliver(inb, C, evs) ==
    [s \in Sessions |->
        IF C[s] THEN inb[s] \o SelectSeq(evs, LAMBDA e : e.chan \in subscribed_channels)
        ELSE <<>>]

\* events the suspended handlers will still broadcast when their store call returns
Owed(p) == IF p.at \in {"save_edit", "map_save"} THEN 1
           ELSE IF p.at = "save_inline" THEN 2 ELSE 0

RECURSIVE SumOwed(_)
SumOwed(S) ==
    IF S = {} THEN 0
    ELSE LET x == CHOOSE y \in S : TRUE IN Owed(pc[x]) + SumOwed(S \ {x})

\* a handler starts only when every inbox has room for the n events it broadcasts and
\* for those of the handlers already suspended
Room(n) ==
    \A s \in Sessions : conn[s] => Len(inbox[s]) + n + SumOwed(Sessions) <= MaxInbox

Ready(s) == conn[s] /\ pc[s] = Idle

DraftOf(s, k) == editing[s][edit_key(k)]
WithDraft(s, k, v) == [editing EXCEPT ![s][edit_key(k)] = v]

\* ghost record of a handler step
Step(op, s, k, wrote, sent) ==
    [op |-> op, sid |-> s, key |-> k, holder |-> None, draft |-> NoDraft,
     wrote |-> wrote, sent |-> sent, event |-> <<>>]

\* ghost record of a step that looks at the lock: with the holder and the draft it saw
StepSeen(op, s, k, wrote, sent) ==
    [Step(op, s, k, wrote, sent) EXCEPT
         !.holder = get_lock_holder(locks, k), !.draft = DraftOf(s, k)]

\* mount + handle_params: a fresh context, subscriptions, the first rendering
Mount(s) ==
    /\ ~conn[s]
    /\ conn' = [conn EXCEPT ![s] = TRUE]
    /\ editing' = [editing EXCEPT ![s] = NoDrafts]
    /\ items' = [items EXCEPT ![s] = build_items_data(s, NoDrafts, locks, db)]
    /\ inbox' = [inbox EXCEPT ![s] = <<>>]
    /\ ev' = [NoEv EXCEPT !.op = "mount", !.sid = s]
    /\ UNCHANGED <<locks, db, pc, owns, last, raceVars, extVars, map_ctx>>

\* EditableFieldMixin._handle_start_edit
StartEdit(s, k) ==
    LET r == acquire_lock(locks, k, s)
        current_value == get_field_value(db, k)
        sent == IF r.ret /\ current_value # Missing
                    THEN <<Event(ItemChannel, "state_changed")>> ELSE <<>>
        E == IF r.ret /\ current_value # Missing
                 THEN WithDraft(s, k, current_value) ELSE editing
    IN
    /\ Ready(s)
    /\ Room(Len(sent))
    /\ locks' = r.locks
    /\ editing' = E
    /\ items' = IF r.ret /\ current_value = Missing THEN items
                ELSE Refreshed(s, E, r.locks, db)
    /\ inbox' = Deliver(inbox, conn, sent)
    /\ ev' = StepSeen("start_edit", s, k, FALSE, sent)
    /\ UNCHANGED <<db, conn, pc, owns, last, raceVars, extVars, map_ctx>>

\* handle_field_event: update_draft
UpdateDraft(s, k, v) ==
    LET E == WithDraft(s, k, v) IN
    /\ Ready(s)
    /\ editing' = E
    /\ items' = Refreshed(s, E, locks, db)
    /\ ev' = Step("update_draft", s, k, FALSE, <<>>)
    /\ UNCHANGED <<locks, db, conn, inbox, pc, owns, last, raceVars, extVars, map_ctx>>

\* EditableFieldMixin._handle_cancel_edit
CancelEdit(s, k) ==
    LET r == release_lock(locks, k, s)
        E == WithDraft(s, k, NoDraft)
        sent == <<Event(ItemChannel, "state_changed")>>
    IN
    /\ Ready(s)
    /\ Room(1)
    /\ locks' = r.locks
    /\ editing' = E
    /\ items' = Refreshed(s, E, r.locks, db)
    /\ inbox' = Deliver(inbox, conn, sent)
    /\ ev' = StepSeen("cancel_edit", s, k, FALSE, sent)
    /\ UNCHANGED <<db, conn, pc, owns, last, raceVars, extVars, map_ctx>>

\* DjangoDataStore.set_field_value / set_inline_target_field_value: False for no row
set_field_value(D, k, value) ==
    IF D[k] = Missing THEN [db |-> D, ret |-> FALSE]
    ELSE [db |-> [D EXCEPT ![k] = value], ret |-> TRUE]

\* post_save handler of alive.signals: state_changed on the model's channel on commit
on_save(k) == <<Event(Channel(k[1]), "state_changed")>>

\* post_delete handler of alive.signals: item_deleted on the model's channel on commit
on_delete(k) == <<Event(Channel(k[1]), "item_deleted")>>

\* a plausible bug: the save goes ahead whoever holds the lock
still_holds_lock_unchecked(L, key, session_id) == TRUE

\* _handle_save_edit: "Verify we still hold the lock"
still_holds_lock(L, key, session_id) ==
    LET lock_holder == get_lock_holder(L, key) IN ~(lock_holder # session_id)

\* handle_field_event "save_edit" and _handle_save_edit up to the await of the write
SaveEdit(s, k) ==
    LET value == IF DraftOf(s, k) = NoDraft THEN "" ELSE DraftOf(s, k)
        owner == still_holds_lock(locks, k, s)
        w == set_field_value(db, k, value)
        sent == IF owner /\ w.ret THEN on_save(k) ELSE <<>>
        E == IF owner THEN editing ELSE WithDraft(s, k, NoDraft)
    IN
    /\ Ready(s)
    /\ Room(IF owner THEN Len(sent) + 1 ELSE 0)
    /\ db' = IF owner THEN w.db ELSE db
    /\ editing' = E
    /\ items' = IF owner THEN items ELSE Refreshed(s, E, locks, db)
    /\ pc' = IF owner THEN [pc EXCEPT ![s] = [at |-> "save_edit", key |-> k,
                                               value |-> value, success |-> w.ret]]
             ELSE pc
    /\ inbox' = Deliver(inbox, conn, sent)
    /\ ev' = StepSeen("save_edit", s, k, owner /\ w.ret, sent)
    /\ UNCHANGED <<locks, conn, owns, last, raceVars, extVars, map_ctx>>

\* _handle_save_edit after the write: release, drop the draft, refresh, broadcast
SaveEditFinish(s) ==
    LET k == pc[s].key
        r == release_lock(locks, k, s)
        E == WithDraft(s, k, NoDraft)
        sent == <<SavedEvent(s)>>
    IN
    /\ conn[s] /\ pc[s].at = "save_edit"
    /\ locks' = r.locks
    /\ editing' = E
    /\ items' = Refreshed(s, E, r.locks, db)
    /\ pc' = [pc EXCEPT ![s] = Idle]
    /\ inbox' = Deliver(inbox, conn, sent)
    /\ ev' = [Step("save_edit_done", s, k, pc[s].success, sent) EXCEPT
                  !.draft = pc[s].value]
    /\ UNCHANGED <<db, conn, owns, last, raceVars, extVars, map_ctx>>

\* handle_event "delete_item"
DeleteItem(s, k) ==
    LET r == release_all_locks(locks, s)
        success == db[k] # Missing
        D == IF success THEN [db EXCEPT ![k] = Missing] ELSE db
        sent == IF success
                    THEN on_delete(k) \o <<Event(ItemChannel, "item_deleted")>> ELSE <<>>
    IN
    /\ Ready(s)
    /\ Room(Len(sent))
    /\ locks' = r.locks
    /\ db' = D
    /\ items' = IF success THEN Refreshed(s, editing, r.locks, D) ELSE items
    /\ inbox' = Deliver(inbox, conn, sent)
    /\ ev' = Step("delete_item", s, k, FALSE, sent)
    /\ UNCHANGED <<editing, conn, pc, owns, last, raceVars, extVars, map_ctx>>

\* handle_event "start_inline_target_edit"
StartInlineTargetEdit(s, k) ==
    LET val == get_field_value(db, k)
        r == IF val # Missing THEN acquire_lock(locks, k, s)
             ELSE [locks |-> locks, ret |-> FALSE]
        E == IF r.ret THEN WithDraft(s, k, val) ELSE editing
        sent == IF r.ret THEN <<Event(ItemChannel, "state_changed"),
                                Event(TargetChannel, "state_changed")>>
                ELSE <<>>
    IN
    /\ Ready(s)
    /\ Room(Len(sent))
    /\ locks' = r.locks
    /\ editing' = E
    /\ items' = IF r.ret THEN Refreshed(s, E, r.locks, db) ELSE items
    /\ inbox' = Deliver(inbox, conn, sent)
    /\ ev' = StepSeen("start_inline_target_edit", s, k, FALSE, sent)
    /\ UNCHANGED <<db, conn, pc, owns, last, raceVars, extVars, map_ctx>>

\* handle_event "update_inline_target_draft"
UpdateInlineTargetDraft(s, k, v) ==
    LET E == WithDraft(s, k, v) IN
    /\ Ready(s)
    /\ editing' = E
    /\ items' = Refreshed(s, E, locks, db)
    /\ ev' = Step("update_inline_target_draft", s, k, FALSE, <<>>)
    /\ UNCHANGED <<locks, db, conn, inbox, pc, owns, last, raceVars, extVars, map_ctx>>

\* handle_event "save_inline_target_edit" up to the return of the write
SaveInlineTargetEdit(s, k) ==
    LET value == IF DraftOf(s, k) = NoDraft THEN "" ELSE DraftOf(s, k)
        w == set_field_value(db, k, value)
        sent == IF w.ret THEN on_save(k) ELSE <<>>
    IN
    /\ Ready(s)
    /\ Room(Len(sent) + 2)
    /\ db' = w.db
    /\ pc' = [pc EXCEPT ![s] = [at |-> "save_inline", key |-> k,
                                 value |-> value, success |-> w.ret]]
    /\ inbox' = Deliver(inbox, conn, sent)
    /\ ev' = StepSeen("save_inline_target_edit", s, k, w.ret, sent)
    /\ UNCHANGED <<locks, editing, items, conn, owns, last, raceVars, extVars, map_ctx>>

\* "save_inline_target_edit" after the write
SaveInlineTargetFinish(s) ==
    LET k == pc[s].key
        r == IF pc[s].success THEN release_lock(locks, k, s)
             ELSE [locks |-> locks, ret |-> FALSE]
        E == WithDraft(s, k, NoDraft)
        sent == (IF pc[s].success THEN <<Event(TargetChannel, "state_changed")>> ELSE <<>>)
                    \o <<Event(ItemChannel, "state_changed")>>
    IN
    /\ conn[s] /\ pc[s].at = "save_inline"
    /\ locks' = r.locks
    /\ editing' = E
    /\ items' = Refreshed(s, E, r.locks, db)
    /\ pc' = [pc EXCEPT ![s] = Idle]
    /\ inbox' = Deliver(inbox, conn, sent)
    /\ ev' = [Step("save_inline_target_done", s, k, pc[s].success, sent) EXCEPT
                  !.draft = pc[s].value]
    /\ UNCHANGED <<db, conn, owns, last, raceVars, extVars, map_ctx>>

\* handle_event "cancel_inline_target_edit"
CancelInlineTargetEdit(s, k) ==
    LET r == release_lock(locks, k, s)
        E == WithDraft(s, k, NoDraft)
        sent == (IF r.ret THEN <<Event(TargetChannel, "state_changed")>> ELSE <<>>)
                    \o <<Event(ItemChannel, "state_changed")>>
    IN
    /\ Ready(s)
    /\ Room(Len(sent))
    /\ locks' = r.locks
    /\ editing' = E
    /\ items' = Refreshed(s, E, r.locks, db)
    /\ inbox' = Deliver(inbox, conn, sent)
    /\ ev' = Step("cancel_inline_target_edit", s, k, FALSE, sent)
    /\ UNCHANGED <<db, conn, pc, owns, last, raceVars, extVars, map_ctx>>

\* a plausible bug: one event per released key instead of one per channel
affected_channels_perkey(released) ==
    [i \in 1..Len(released) |-> Channel(released[i][1])]

\* disconnect: the channels of the released keys, each once
affected_channels(released) ==
    SetToSeq({Channel(released[i][1]) : i \in 1..Len(released)})

\* GeneratedModelLiveView.disconnect
Disconnect(s) ==
    LET r == release_all_locks(locks, s)
        chans == affected_channels(r.released)
        sent == [i \in 1..Len(chans) |-> Event(chans[i], "locks_released")]
        C == [conn EXCEPT ![s] = FALSE]
    IN
    /\ Ready(s)
    /\ Room(Len(sent))
    /\ locks' = r.locks
    /\ conn' = C
    /\ editing' = [editing EXCEPT ![s] = NoDrafts]
    /\ items' = [items EXCEPT ![s] = <<>>]
    /\ inbox' = Deliver(inbox, C, sent)
    /\ ev' = [Step("disconnect", s, <<>>, FALSE, sent) EXCEPT
                  !.key = r.released]
    /\ UNCHANGED <<db, pc, owns, last, raceVars, extVars, map_ctx>>

\* events no handler of the repository publishes: a conflict for the edit key of a
\* field of the view's own model
ConflictEvents ==
    {[Event(ItemChannel, "conflict") EXCEPT !.key = edit_key(k)] : k \in ItemKeys}

\* an action outside the vocabulary, an event of a channel the view does not
\* subscribe to
IgnoredEvents ==
    {Event(ItemChannel, "unknown_action"), Event("other_channel", "state_changed")}

\* item_created events of rows created outside the view (post_save with created)
CreatedEvents == {Event(ItemChannel, "item_created")}

\* conflict events for the edit keys of the view's fields, and one without a key
AnyConflictEvents ==
    {[Event(ItemChannel, "conflict") EXCEPT !.key = edit_key(k)] : k \in ItemKeys \cup NameKeys}
        \cup {Event(ItemChannel, "conflict")}

\* ghost record of a handle_info step: the event and the draft the session had for
\* the key the event carries
InfoStep(s, e) ==
    [Step("handle_info", s, <<>>, FALSE, <<>>) EXCEPT
         !.event = e,
         !.draft = IF e.key \in EditKeys THEN editing[s][e.key] ELSE NoDraft]

\* a plausible bug: a conflict drops every draft of the session
handle_info_conflictclearsall(s, e) ==
    [editing |-> IF e.chan \in subscribed_channels /\ e.action = "conflict"
                     THEN [editing EXCEPT ![s] = NoDrafts] ELSE editing,
     refresh |-> e.chan \in subscribed_channels
                     /\ e.action \in RefreshActions \cup {"conflict"}]

\* a plausible bug: the channel of the event is not looked at
handle_info_nochannelcheck(s, e) ==
    [editing |-> IF e.action = "conflict" /\ e.key \in EditKeys
                     THEN [editing EXCEPT ![s][e.key] = NoDraft] ELSE editing,
     refresh |-> e.action \in RefreshActions \cup {"conflict"}]

\* a plausible bug: state_changed is missing from the actions that refresh
handle_info_nostatechanged(s, e) ==
    [editing |-> editing,
     refresh |-> e.chan \in subscribed_channels
                     /\ e.action \in (RefreshActions \ {"state_changed"}) \cup {"conflict"}]

\* GeneratedModelLiveView.handle_info: the drafts afterwards, and whether it refreshes
handle_info(s, e) ==
    IF e.chan \notin subscribed_channels
        THEN [editing |-> editing, refresh |-> FALSE]
    ELSE IF e.action \in RefreshActions
        THEN [editing |-> editing, refresh |-> TRUE]
    ELSE IF e.action = "conflict"
        THEN [editing |-> IF e.key \in EditKeys
                              THEN [editing EXCEPT ![s][e.key] = NoDraft] ELSE editing,
              refresh |-> TRUE]
    ELSE [editing |-> editing, refresh |-> FALSE]

\* the pub/sub hub calls handle_info with the oldest undelivered event
HandleInfo(s) ==
    LET e == Head(inbox[s])
        h == handle_info(s, e)
    IN
    /\ Ready(s)
    /\ inbox[s] # <<>>
    /\ inbox' = [inbox EXCEPT ![s] = Tail(inbox[s])]
    /\ editing' = h.editing
    /\ items' = IF h.refresh THEN Refreshed(s, h.editing, locks, db) ELSE items
    /\ ev' = InfoStep(s, e)
    /\ UNCHANGED <<locks, db, conn, pc, owns, last, raceVars, extVars, map_ctx>>

\* a plausible bug: a conflict also releases the lock of the discarded draft
ExternalEvent_conflictreleases(s, e) ==
    LET h == handle_info(s, e) IN
    /\ Ready(s)
    /\ editing' = h.editing
    /\ locks' = [k \in LockKeys |->
                    IF e.action = "conflict" /\ k \in ViewKeys /\ edit_key(k) = e.key
                           /\ locks[k] = s
                        THEN None ELSE locks[k]]
    /\ items' = IF h.refresh THEN Refreshed(s, h.editing, locks', db) ELSE items
    /\ ev' = InfoStep(s, e)
    /\ UNCHANGED <<db, conn, inbox, pc, owns, last, raceVars, extVars, map_ctx>>

\* an event from outside reaches handle_info of s
ExternalEvent(s, e) ==
    LET h == handle_info(s, e) IN
    /\ Ready(s)
    /\ editing' = h.editing
    /\ items' = IF h.refresh THEN Refreshed(s, h.editing, locks, db) ELSE items
    /\ ev' = InfoStep(s, e)
    /\ UNCHANGED <<locks, db, conn, inbox, pc, owns, last, raceVars, extVars, map_ctx>>

Init == InitReg

Next ==
    \/ \E s \in Sessions : Mount(s)
    \/ \E s \in Sessions, k \in ItemKeys : StartEdit(s, k)
    \/ \E s \in Sessions, k \in ItemKeys, v \in Values : UpdateDraft(s, k, v)
    \/ \E s \in Sessions, k \in ItemKeys : CancelEdit(s, k)
    \/ \E s \in Sessions, k \in ItemKeys : SaveEdit(s, k)
    \/ \E s \in Sessions : SaveEditFinish(s)
    \/ \E s \in Sessions, k \in ItemKeys : DeleteItem(s, k)
    \/ \E s \in Sessions : Disconnect(s)
    \/ \E s \in Sessions : HandleInfo(s)
    \/ \E s \in Sessions, e \in ConflictEvents : ExternalEvent(s, e)

Spec == Init /\ [][Next]_vars

\* the field data session s renders for key k, if it renders the row
Rendered(s, k) == k \in DOMAIN items[s]

\* C2: save-race safety. When save_edit is handled for a session that has a draft for
\* the key while the registry does not record it as the holder, the step writes nothing
\* to the store, leaves the registry unchanged and removes the session's draft.
C2_SaveRaceSafety ==
    [][(ev'.op = "save_edit" /\ ev'.draft # NoDraft /\ ev'.holder # ev'.sid)
           => (/\ db' = db
               /\ ~ev'.wrote
               /\ locks' = locks
               /\ editing'[ev'.sid][edit_key(ev'.key)] = NoDraft
               /\ pc' = pc)]_vars

\* a save_edit of a session with a draft whose lock another session holds
C2_Witness ==
    /\ ev.op = "save_edit" /\ ev.draft \in Values
    /\ ev.holder \notin {None, ev.sid}
    /\ editing[ev.sid][edit_key(ev.key)] = NoDraft
    /\ db[ev.key] = "a"

\* C5: three-state invariant. A session has a draft for a field key if and only if it
\* holds the key's lock.
C5_DraftIffLock ==
    \A s \in Sessions, k \in ItemKeys :
        (editing[s][edit_key(k)] # NoDraft) <=> (get_lock_holder(locks, k) = s)

C10_SaveWritesDraft ==
    /\ (ev.op = "save_edit" /\ ev.holder = ev.sid /\ ev.draft # NoDraft)
           => db[ev.key] = ev.draft
    /\ ev.op = "save_edit_done"
           => /\ get_lock_holder(locks, ev.key) = None
              /\ editing[ev.sid][edit_key(ev.key)] = NoDraft
              /\ ev.sent = <<SavedEvent(ev.sid)>>

\* C11: cancel_edit never writes to the store. start_edit, update_draft and
\* cancel_edit leave the stored values unchanged, so after start_edit, any number of
\* update_draft and cancel_edit the stored value is the one before start_edit; after
\* cancel_edit the key's lock is not held by the session, the session has no draft for
\* the key and state_changed has been broadcast; when the session did not hold the
\* lock the registry is unchanged.
C11_CancelNeverWrites ==
    [][/\ ev'.op \in {"start_edit", "update_draft", "cancel_edit"} => db' = db
       /\ ev'.op = "cancel_edit" =>
              /\ ~ev'.wrote
              /\ get_lock_holder(locks', ev'.key) # ev'.sid
              /\ editing'[ev'.sid][edit_key(ev'.key)] = NoDraft
              /\ ev'.sent = <<Event(ItemChannel, "state_changed")>>
              /\ \A b \in Sessions :
                     conn[b] => inbox'[b] = Append(inbox[b], Event(ItemChannel, "state_changed"))
              /\ get_lock_holder(locks, ev'.key) # ev'.sid => locks' = locks
              /\ \A x \in LockKeys \ {ev'.key} : locks'[x] = locks[x]]_vars

\* a session that held the lock with a typed draft has cancelled: the stored value is
\* still the one fetched by start_edit and the key is unheld
C11_Witness ==
    /\ ev.op = "cancel_edit" /\ ev.holder = ev.sid /\ ev.draft \in Values
    /\ db[ev.key] = "a"
    /\ get_lock_holder(locks, ev.key) = None
    /\ editing[ev.sid][edit_key(ev.key)] = NoDraft

\* a session that did not hold the lock has cancelled: the holder keeps it
C11_WitnessNotHeld ==
    /\ ev.op = "cancel_edit" /\ ev.holder \notin {None, ev.sid}
    /\ get_lock_holder(locks, ev.key) = ev.holder

\* C12: whenever start_edit acquires the key's lock (the key was unheld or held by
\* the session itself), the session ends with a draft for the key equal to the
\* committed value and state_changed has been broadcast.
C12_AcquireGivesDraft ==
    (ev.op = "start_edit" /\ ev.holder \in {None, ev.sid})
        => /\ get_lock_holder(locks, ev.key) = ev.sid
           /\ editing[ev.sid][edit_key(ev.key)] = db[ev.key]
           /\ ev.sent = <<Event(ItemChannel, "state_changed")>>

\* C13: update_draft changes the draft only of a session that is editing the key.
\* After update_draft (which leaves the registry alone) the session has a draft for
\* the key only if it holds the key's lock.
C13_UpdateDraftOnlyWhenEditing ==
    (/\ ev.op \in {"update_draft", "update_inline_target_draft"}
     /\ editing[ev.sid][edit_key(ev.key)] # NoDraft)
        => get_lock_holder(locks, ev.key) = ev.sid

\* C23: a save_edit whose write the store rejected is not treated as successful: it
\* does not end like a successful save, with the draft removed and state_changed
\* broadcast.
C23_RejectedWriteReported ==
    (ev.op = "save_edit_done" /\ ~ev.wrote)
        => ~(/\ editing[ev.sid][edit_key(ev.key)] = NoDraft
             /\ ev.sent = <<SavedEvent(ev.sid)>>)

\* C25: a lock entry held by session A is removed or reassigned only by a step of A
\* itself: the end of its save, its cancel, its delete_item or its disconnect.
C25_OnlyHolderRemoves ==
    [][\A k \in LockKeys, A \in Sessions :
           (get_lock_holder(locks, k) = A /\ get_lock_holder(locks', k) # A)
               => /\ ev'.sid = A
                  /\ ev'.op \in {"save_edit_done", "cancel_edit", "delete_item",
                                 "disconnect"}]_vars

\* a session has disconnected while another session holds a lock with a draft: that
\* lock is still held
C25_Witness ==
    /\ ev.op = "disconnect"
    /\ \E k \in ItemKeys :
           /\ get_lock_holder(locks, k) \in Sessions \ {ev.sid}
           /\ editing[get_lock_holder(locks, k)][edit_key(k)] # NoDraft

\* C28: no lost update through save_edit. A save_edit writes K only for the session
\* that holds K's lock when the save is handled, so no other session's save_edit
\* writes K while a session holds the lock; and a session comes to hold K's lock only
\* through its own start_edit, which sets its draft to the stored value. Hence no
\* other session's save_edit writes K between A's most recent successful start_edit
\* of K and A's write.
C28_NoLostUpdate ==
    [][/\ (ev'.op = "save_edit" /\ ev'.wrote)
              => /\ get_lock_holder(locks, ev'.key) = ev'.sid
                 /\ \A k \in LockKeys \ {ev'.key} : db'[k] = db[k]
       /\ ev'.op # "save_edit" => \A k \in ItemKeys : db'[k] \in {db[k], Missing}
       /\ \A k \in ItemKeys, A \in Sessions :
              (get_lock_holder(locks, k) # A /\ get_lock_holder(locks', k) = A)
                  => /\ ev'.op = "start_edit" /\ ev'.sid = A /\ ev'.key = k
                     /\ db[k] # Missing => editing'[A][edit_key(k)] = db[k]]_vars

\* a save_edit of the lock holder has written its draft while another session has a
\* draft for the same key that it typed without the lock
C28_Witness ==
    /\ ev.op = "save_edit" /\ ev.wrote /\ ev.holder = ev.sid
    /\ db[ev.key] = ev.draft
    /\ \E B \in Sessions \ {ev.sid} : editing[B][edit_key(ev.key)] \in Values

\* C29: save_edit writes only the session's current draft: a save_edit of a session
\* that holds the key's lock and has no draft for the key writes nothing.
C29_NoDraftNoWrite ==
    (ev.op = "save_edit" /\ ev.holder = ev.sid /\ ev.draft = NoDraft) => ~ev.wrote

\* C30: after a delete_item that deleted the row, no lock entry remains for a field
\* of the deleted row, whichever session held it.
C30_DeleteClearsRowLocks ==
    (ev.op = "delete_item" /\ ev.sent # <<>>)
        => \A k \in LockKeys :
               (k[1] = ev.key[1] /\ k[2] = ev.key[2]) => get_lock_holder(locks, k) = None

\* C32: for every session and every field, the field data handed to the renderer
\* never has is_editing = true and is_locked = true at the same time.
C32_NeverEditingAndLocked ==
    \A s \in Sessions, k \in ViewKeys :
        (conn[s] /\ Rendered(s, k))
            => ~(items[s][k].is_editing /\ items[s][k].is_locked)

(***************************************************************************)
(* FairSpec: sessions that edit and save, with the scheduling of the event   *)
(* loop. A handler suspended in a store call is resumed when the call        *)
(* returns, and the hub calls handle_info for every event delivered to a     *)
(* connected session.                                                        *)
(***************************************************************************)
NextSave ==
    \/ \E s \in Sessions : Mount(s)
    \/ \E s \in Sessions, k \in ItemKeys : StartEdit(s, k)
    \/ \E s \in Sessions, k \in ItemKeys, v \in Values : UpdateDraft(s, k, v)
    \/ \E s \in Sessions, k \in ItemKeys : SaveEdit(s, k)
    \/ \E s \in Sessions : SaveEditFinish(s)
    \/ \E s \in Sessions : Disconnect(s)
    \/ \E s \in Sessions : HandleInfo(s)

Fairness ==
    \A s \in Sessions : WF_vars(HandleInfo(s)) /\ WF_vars(SaveEditFinish(s))

FairSpec == Init /\ [][NextSave]_vars /\ Fairness

\* what save_edit can write: a typed value, the fetched value, or "" for no draft
SavedValues == Values \cup {"a", ""}

\* a session other than b has finished a save_edit of k that wrote v
SavedByOther(b, k, v) ==
    ev.op = "save_edit_done" /\ ev.sid # b /\ ev.key = k /\ ev.wrote /\ ev.draft = v

\* session b has just handled the state_changed of another session's finished save
\* and renders k unlocked with the value v
SeenBy(b, k, v) ==
    /\ ev.op = "handle_info" /\ ev.sid = b
    /\ ev.event \in {SavedEvent(a) : a \in Sessions \ {b}}
    /\ k \in DOMAIN items[b]
    /\ ~items[b][k].is_locked
    /\ items[b][k].value = v

\* C8: after a save_edit of a session has written v to key k and finished, every other
\* connected session b eventually handles the state_changed event the save published
\* after releasing the lock, and the rendering it builds shows k unlocked with value v,
\* unless it disconnects, the key is acquired again or the stored value is changed.
C8_SavedReachesOthers ==
    \A b \in Sessions, k \in ItemKeys, v \in SavedValues :
        (SavedByOther(b, k, v) /\ conn[b])
            ~> (\/ SeenBy(b, k, v)
                \/ ~conn[b]
                \/ get_lock_holder(locks, k) # None
                \/ db[k] # v)

\* a session has handled the event of another session's save and shows its value
C8_Witness ==
    \E b \in Sessions, k \in ItemKeys :
        /\ SeenBy(b, k, "b")
        /\ db[k] = "b"
        /\ get_lock_holder(locks, k) = None

(***************************************************************************)
(* SpecInline: sessions of the generated view of ItemLabel that edit one     *)
(* field of the rows of the inline relation.                                 *)
(***************************************************************************)
NextInline ==
    \/ \E s \in Sessions : Mount(s)
    \/ \E s \in Sessions, k \in NameKeys : StartInlineTargetEdit(s, k)
    \/ \E s \in Sessions, k \in NameKeys, v \in Values : UpdateInlineTargetDraft(s, k, v)
    \/ \E s \in Sessions, k \in NameKeys : SaveInlineTargetEdit(s, k)
    \/ \E s \in Sessions : SaveInlineTargetFinish(s)
    \/ \E s \in Sessions, k \in NameKeys : CancelInlineTargetEdit(s, k)
    \/ \E s \in Sessions : Disconnect(s)
    \/ \E s \in Sessions : HandleInfo(s)

SpecInline == Init /\ [][NextInline]_vars

\* C3: no save path overwrites a field another session is editing. A save_edit or a
\* save_inline_target_edit writes the field only if the registry records the saving
\* session as the holder of the field's lock when the save is handled.
C3_WriteOnlyByHolder ==
    (ev.op \in {"save_edit", "save_inline_target_edit"} /\ ev.wrote)
        => ev.holder = ev.sid

(***************************************************************************)
(* SpecDisc: sessions that take locks of both entity kinds and disconnect.   *)
(***************************************************************************)
NextDisc ==
    \/ \E s \in Sessions : Mount(s)
    \/ \E s \in Sessions, k \in ItemKeys : StartEdit(s, k)
    \/ \E s \in Sessions, k \in TargetKeys : StartInlineTargetEdit(s, k)
    \/ \E s \in Sessions : Disconnect(s)
    \/ \E s \in Sessions : HandleInfo(s)
    \/ \E s \in Sessions, e \in IgnoredEvents : ExternalEvent(s, e)

SpecDisc == Init /\ [][NextDisc]_vars

\* C7: disconnect. After the disconnect of a session no lock is held by it; exactly
\* one locks_released event is broadcast on the channel alive:<kind> of each distinct
\* entity kind among the keys it held, and nothing else, so nothing at all when it
\* held no lock.
C7_DisconnectReleases ==
    [][ev'.op = "disconnect" =>
           LET held == {k \in LockKeys : get_lock_holder(locks, k) = ev'.sid}
               kinds == {k[1] : k \in held}
           IN
           /\ \A k \in LockKeys : get_lock_holder(locks', k) # ev'.sid
           /\ \A kind \in kinds :
                  Cardinality({i \in DOMAIN ev'.sent :
                      ev'.sent[i] = Event(Channel(kind), "locks_released")}) = 1
           /\ Len(ev'.sent) = Cardinality(kinds)]_vars

\* a session that held two fields of a target row and a field of its own row has
\* disconnected: three keys released, two events
C7_Witness ==
    /\ ev.op = "disconnect"
    /\ Len(ev.key) = 3
    /\ Len(ev.sent) = 2
    /\ \A k \in LockKeys : get_lock_holder(locks, k) # ev.sid

(***************************************************************************)
(* SpecInfo: sessions that hold drafts of both kinds and handle the events   *)
(* of the bus: those the handlers and the signals publish, conflict events,  *)
(* and events outside the vocabulary or of another channel.                  *)
(***************************************************************************)
NextInfo ==
    \/ \E s \in Sessions : Mount(s)
    \/ \E s \in Sessions, k \in ItemKeys : StartEdit(s, k)
    \/ \E s \in Sessions, k \in NameKeys : StartInlineTargetEdit(s, k)
    \/ \E s \in Sessions, k \in ItemKeys : DeleteItem(s, k)
    \/ \E s \in Sessions : Disconnect(s)
    \/ \E s \in Sessions : HandleInfo(s)
    \/ \E s \in Sessions, e \in CreatedEvents \cup AnyConflictEvents \cup IgnoredEvents :
           ExternalEvent(s, e)

SpecInfo == Init /\ [][NextInfo]_vars

\* the event of a handle_info step is one the view acts on with the given actions
Handles(e, actions) == e.chan \in subscribed_channels /\ e.action \in actions

C20_OtherEventsIgnored ==
    [][(ev'.op = "handle_info" /\ ~Handles(ev'.event, RefreshActions \cup {"conflict"}))
           => /\ editing' = editing
              /\ locks' = locks
              /\ db' = db
              /\ items' = items
              /\ pc' = pc /\ conn' = conn]_vars

\* a session whose snapshot is out of date has handled an event with an unknown
\* action on its own channel: the snapshot is still the old one
C20_Witness ==
    /\ ev.op = "handle_info"
    /\ ev.event.chan \in subscribed_channels
    /\ ev.event.action \notin RefreshActions \cup {"conflict"}
    /\ items[ev.sid] # build_items_data(ev.sid, editing[ev.sid], locks, db)

\* C31: handling a conflict event does not change the lock registry. A session whose
\* draft for K is discarded by a conflict still holds K's lock afterwards, and a
\* session stops holding a lock only by its own cancel_edit, save_edit, delete_item
\* or disconnect.
C31_ConflictKeepsLocks ==
    [][/\ ev'.op = "handle_info" => locks' = locks
       /\ \A k \in LockKeys, A \in Sessions :
              (get_lock_holder(locks, k) = A /\ get_lock_holder(locks', k) # A)
                  => /\ ev'.sid = A
                     /\ ev'.op \in {"cancel_edit", "save_edit_done", "delete_item",
                                     "disconnect"}]_vars

\* a session that held the lock of K with a draft has handled a conflict for K: the
\* draft is gone and the session still holds the lock
C31_Witness ==
    /\ ev.op = "handle_info" /\ Handles(ev.event, {"conflict"})
    /\ ev.draft # NoDraft
    /\ \E k \in ViewKeys :
           /\ edit_key(k) = ev.event.key
           /\ editing[ev.sid][edit_key(k)] = NoDraft
           /\ get_lock_holder(locks, k) = ev.sid

\* C24: release_all_locks is called only by disconnect: no event handled for a
\* session that stays connected removes more than one of its locks.
C24_BulkReleaseOnlyOnDisconnect ==
    [][ev'.op # "disconnect" =>
           \A s \in Sessions :
               Cardinality({k \in LockKeys : get_lock_holder(locks, k) = s
                                               /\ get_lock_holder(locks', k) # s}) <= 1]_vars

(***************************************************************************)
(* SpecShared: the generated view of ItemLabel, whose inline relation edits  *)
(* rows of TargetLabel, next to the generated view of TargetLabel itself.    *)
(* Both reach the one registry of store.py. The last session is a connection *)
(* to the view of TargetLabel, the others are connections to the view of     *)
(* ItemLabel. A draft is kept in the slot edit_key(k) of the session's       *)
(* editing in both views (the dict key is f"{item_id}:{field_name}" in the   *)
(* view of TargetLabel). The inbox holds what was published while the        *)
(* session was connected; handle_info drops the events of other channels.    *)
(***************************************************************************)
TargetViewSessions == {NumSessions}
ItemViewSessions == Sessions \ TargetViewSessions

\* a plausible bug: the store of the model's own view locks in a namespace of its
\* own (the keys of another label stand for it)
store_lock_key_ownregistry(model_label, item_id, field_name) ==
    <<SituationLabel, item_id, IF field_name = "name" THEN "name" ELSE "notes">>

\* DjangoDataStore.acquire_lock / release_lock / get_lock_holder: the key the store
\* of a model passes to the module-level registry
store_lock_key(model_label, item_id, field_name) ==
    <<model_label, item_id, field_name>>

\* _build_items_data of the view of TargetLabel: the field data of its rows
build_target_view_data(session_id, E, L, D) ==
    [k \in {x \in TargetKeys : D[x] # Missing} |->
        [render_field_data(k, D[k], session_id, E, L) EXCEPT
            !.is_locked =
                get_lock_holder(L, store_lock_key(k[1], k[2], k[3])) \notin {None, session_id}]]

\* mount of a connection to the view of TargetLabel
TargetViewMount(s) ==
    /\ ~conn[s]
    /\ conn' = [conn EXCEPT ![s] = TRUE]
    /\ editing' = [editing EXCEPT ![s] = NoDrafts]
    /\ items' = [items EXCEPT ![s] = build_target_view_data(s, NoDrafts, locks, db)]
    /\ inbox' = [inbox EXCEPT ![s] = <<>>]
    /\ ev' = [NoEv EXCEPT !.op = "mount", !.sid = s]
    /\ UNCHANGED <<locks, db, pc, owns, last, raceVars, extVars, map_ctx>>

\* EditableFieldMixin._handle_start_edit in the view of TargetLabel
TargetViewStartEdit(s, k) ==
    LET key == store_lock_key(TargetLabel, k[2], k[3])
        r == acquire_lock(locks, key, s)
        current_value == get_field_value(db, k)
        ok == r.ret /\ current_value # Missing
        sent == IF ok THEN <<Event(TargetChannel, "state_changed")>> ELSE <<>>
        E == IF ok THEN WithDraft(s, k, current_value) ELSE editing
    IN
    /\ Ready(s)
    /\ Room(Len(sent))
    /\ locks' = r.locks
    /\ editing' = E
    /\ items' = IF r.ret /\ current_value = Missing THEN items
                ELSE [items EXCEPT ![s] = build_target_view_data(s, E[s], r.locks, db)]
    /\ inbox' = Deliver(inbox, conn, sent)
    /\ ev' = StepSeen("start_edit", s, k, FALSE, sent)
    /\ UNCHANGED <<db, conn, pc, owns, last, raceVars, extVars, map_ctx>>

\* EditableFieldMixin._handle_cancel_edit in the view of TargetLabel
TargetViewCancelEdit(s, k) ==
    LET key == store_lock_key(TargetLabel, k[2], k[3])
        r == release_lock(locks, key, s)
        E == WithDraft(s, k, NoDraft)
        sent == <<Event(TargetChannel, "state_changed")>>
    IN
    /\ Ready(s)
    /\ Room(1)
    /\ locks' = r.locks
    /\ editing' = E
    /\ items' = [items EXCEPT ![s] = build_target_view_data(s, E[s], r.locks, db)]
    /\ inbox' = Deliver(inbox, conn, sent)
    /\ ev' = StepSeen("cancel_edit", s, k, FALSE, sent)
    /\ UNCHANGED <<db, conn, pc, owns, last, raceVars, extVars, map_ctx>>

\* handle_info of the view of TargetLabel: subscribed to its store.channel alone
TargetViewHandleInfo(s) ==
    LET e == Head(inbox[s])
        mine == e.chan = TargetChannel
        E == IF mine /\ e.action = "conflict" /\ e.key \in EditKeys
                 THEN [editing EXCEPT ![s][e.key] = NoDraft] ELSE editing
    IN
    /\ Ready(s)
    /\ inbox[s] # <<>>
    /\ inbox' = [inbox EXCEPT ![s] = Tail(inbox[s])]
    /\ editing' = E
    /\ items' = IF mine /\ e.action \in RefreshActions \cup {"conflict"}
                    THEN [items EXCEPT ![s] = build_target_view_data(s, E[s], locks, db)]
                ELSE items
    /\ ev' = InfoStep(s, e)
    /\ UNCHANGED <<locks, db, conn, pc, owns, last, raceVars, extVars, map_ctx>>

NextShared ==
    \/ \E s \in ItemViewSessions : Mount(s)
    \/ \E s \in ItemViewSessions, k \in NameKeys : StartInlineTargetEdit(s, k)
    \/ \E s \in ItemViewSessions, k \in NameKeys : CancelInlineTargetEdit(s, k)
    \/ \E s \in ItemViewSessions : HandleInfo(s)
    \/ \E s \in TargetViewSessions : TargetViewMount(s)
    \/ \E s \in TargetViewSessions, k \in NameKeys : TargetViewStartEdit(s, k)
    \/ \E s \in TargetViewSessions, k \in NameKeys : TargetViewCancelEdit(s, k)
    \/ \E s \in TargetViewSessions : TargetViewHandleInfo(s)

SpecShared == Init /\ [][NextShared]_vars

\* C27: the registry is shared by all views. A start_edit in the view of the target
\* model is refused while another session holds the field's lock through
\* start_inline_target_edit, and a start_inline_target_edit acquires nothing while
\* another session holds the lock through start_edit in the target model's view: no
\* field of a target row has drafts started by two sessions, and a start refused in
\* one view leaves the registry and the drafts as they were.
C27_SharedRegistry ==
    /\ \A k \in NameKeys :
           Cardinality({s \in Sessions : editing[s][edit_key(k)] # NoDraft}) <= 1
    /\ \A k \in NameKeys, s \in Sessions :
           editing[s][edit_key(k)] # NoDraft => get_lock_holder(locks, k) = s
    /\ (ev.op \in {"start_edit", "start_inline_target_edit"}
            /\ ev.holder \notin {None, ev.sid})
           => /\ get_lock_holder(locks, ev.key) = ev.holder
              /\ editing[ev.sid][edit_key(ev.key)] = NoDraft

\* a start_edit in the target model's view was refused because a session of the
\* other view holds the lock through start_inline_target_edit
C27_Witness ==
    /\ ev.op = "start_edit" /\ ev.sid \in TargetViewSessions
    /\ ev.holder \in ItemViewSessions
    /\ editing[ev.holder][edit_key(ev.key)] # NoDraft
    /\ editing[ev.sid][edit_key(ev.key)] = NoDraft
    /\ Rendered(ev.sid, ev.key) /\ items[ev.sid][ev.key].is_locked

\* a start_inline_target_edit acquired nothing because the session of the target
\* model's view holds the lock through start_edit
C27_WitnessInline ==
    /\ ev.op = "start_inline_target_edit" /\ ev.sid \in ItemViewSessions
    /\ ev.holder \in TargetViewSessions
    /\ editing[ev.holder][edit_key(ev.key)] # NoDraft
    /\ editing[ev.sid][edit_key(ev.key)] = NoDraft

(***************************************************************************)
(* SpecCards: connections to CardsLiveView (src/views/cards/cards.py), which *)
(* locks through card_store (src/cards/store.py). mount takes the session_id *)
(* from the session it is given, so the connections that are given the same  *)
(* session get the same id. Sessions names the connections and also the      *)
(* sessions handed to mount.                                                 *)
(***************************************************************************)
CardsChannel == "cards_channel"

Live(c) == cards.session_id[c] # None

\* str(uuid.uuid4()): an id no session and no connection has
FreshIds ==
    Sessions \ ({cards.session[b] : b \in Sessions} \cup {cards.session_id[c] : c \in Sessions})

\* DjangoCardStore.acquire_lock
card_store_acquire_lock(L, key, session_id) ==
    LET current_holder == L[key] IN
    IF current_holder = None THEN [locks |-> [L EXCEPT ![key] = session_id], ret |-> TRUE]
    ELSE IF current_holder = session_id THEN [locks |-> L, ret |-> TRUE]
    ELSE [locks |-> L, ret |-> FALSE]

\* DjangoCardStore.release_lock
card_store_release_lock(L, key, session_id) ==
    LET current_holder == L[key] IN
    IF current_holder = session_id THEN [locks |-> [L EXCEPT ![key] = None], ret |-> TRUE]
    ELSE [locks |-> L, ret |-> FALSE]

\* DjangoCardStore.release_all_locks
card_store_release_all_locks(L, session_id) ==
    LET keys_to_remove_ == {key \in CardKeys : L[key] = session_id} IN
    [locks |-> [key \in CardKeys |-> IF key \in keys_to_remove_ THEN None ELSE L[key]],
     released |-> keys_to_remove_]

\* _build_cards_data / render_card_data: the state of each field of each card
build_cards_data(session_id, E, L) ==
    [k \in CardKeys |->
        [is_editing |-> E[k] # NoDraft,
         editing_value |-> IF E[k] # NoDraft THEN E[k] ELSE "",
         is_locked |-> L[k] \notin {None, session_id}]]

\* socket.broadcast on cards_channel: every live connection gets the events
CardsDeliver(inb, ids, evs) ==
    [c \in Sessions |-> IF ids[c] # None THEN inb[c] \o evs ELSE <<>>]

CardsRoom(n) == \A c \in Sessions : Live(c) => Len(cards.inbox[c]) + n <= MaxInbox

\* CardsLiveView.mount of connection c with the session b
CardsMount(c, b) ==
    /\ ~Live(c)
    /\ \E u \in (IF cards.session[b] # None THEN {cards.session[b]} ELSE FreshIds) :
           LET session_id == u
               editing_ == [k \in CardKeys |-> NoDraft]
           IN
           /\ cards' = [cards EXCEPT
                  !.session[b] = session_id,
                  !.session_id[c] = session_id,
                  !.editing[c] = editing_,
                  !.cards[c] = build_cards_data(session_id, editing_, cards.edit_locks),
                  !.inbox[c] = <<>>]
           /\ ev' = [NoEv EXCEPT !.op = "cards_mount", !.sid = c]
    /\ UNCHANGED <<regVars, raceVars, db, conn, editing, items, inbox, pc, map_ctx, txn, gameVars>>

\* EditableFieldMixin._handle_start_edit with lock_manager = card_store
CardsStartEdit(c, k) ==
    LET session_id == cards.session_id[c]
        r == card_store_acquire_lock(cards.edit_locks, k, session_id)
        E == IF r.ret THEN [cards.editing[c] EXCEPT ![k] = "a"] ELSE cards.editing[c]
        sent == IF r.ret THEN <<Event(CardsChannel, "state_changed")>> ELSE <<>>
    IN
    /\ Live(c)
    /\ CardsRoom(Len(sent))
    /\ cards' = [cards EXCEPT
           !.edit_locks = r.locks,
           !.editing[c] = E,
           !.cards[c] = build_cards_data(session_id, E, r.locks),
           !.inbox = CardsDeliver(cards.inbox, cards.session_id, sent)]
    /\ ev' = [Step("cards_start_edit", c, k, FALSE, sent) EXCEPT
                 !.holder = cards.edit_locks[k], !.draft = cards.editing[c][k]]
    /\ UNCHANGED <<regVars, raceVars, db, conn, editing, items, inbox, pc, map_ctx, txn, gameVars>>

\* EditableFieldMixin._handle_cancel_edit with lock_manager = card_store
CardsCancelEdit(c, k) ==
    LET session_id == cards.session_id[c]
        r == card_store_release_lock(cards.edit_locks, k, session_id)
        E == [cards.editing[c] EXCEPT ![k] = NoDraft]
        sent == <<Event(CardsChannel, "state_changed")>>
    IN
    /\ Live(c)
    /\ CardsRoom(1)
    /\ cards' = [cards EXCEPT
           !.edit_locks = r.locks,
           !.editing[c] = E,
           !.cards[c] = build_cards_data(session_id, E, r.locks),
           !.inbox = CardsDeliver(cards.inbox, cards.session_id, sent)]
    /\ ev' = [Step("cards_cancel_edit", c, k, FALSE, sent) EXCEPT
                 !.holder = cards.edit_locks[k], !.draft = cards.editing[c][k]]
    /\ UNCHANGED <<regVars, raceVars, db, conn, editing, items, inbox, pc, map_ctx, txn, gameVars>>

\* CardsLiveView.disconnect: release_all_locks of the connection's session_id
CardsDisconnect(c) ==
    LET session_id == cards.session_id[c]
        r == card_store_release_all_locks(cards.edit_locks, session_id)
        sent == IF r.released # {} THEN <<Event(CardsChannel, "locks_released")>> ELSE <<>>
        ids == [cards.session_id EXCEPT ![c] = None]
    IN
    /\ Live(c)
    /\ CardsRoom(Len(sent))
    /\ cards' = [cards EXCEPT
           !.edit_locks = r.locks,
           !.session_id = ids,
           !.editing[c] = [k \in CardKeys |-> NoDraft],
           !.cards[c] = <<>>,
           !.inbox = CardsDeliver(cards.inbox, ids, sent)]
    /\ ev' = Step("cards_disconnect", c, <<>>, FALSE, sent)
    /\ UNCHANGED <<regVars, raceVars, db, conn, editing, items, inbox, pc, map_ctx, txn, gameVars>>

\* CardsLiveView.handle_info with the oldest undelivered event
CardsHandleInfo(c) ==
    LET e == Head(cards.inbox[c])
        conflict == e.chan = CardsChannel /\ e.action = "conflict"
        refresh == e.chan = CardsChannel
                       /\ e.action \in {"state_changed", "locks_released",
                                         "card_created", "card_deleted", "conflict"}
        E == IF conflict /\ e.key \in CardKeys
                 THEN [cards.editing[c] EXCEPT ![e.key] = NoDraft]
             ELSE cards.editing[c]
    IN
    /\ Live(c)
    /\ cards.inbox[c] # <<>>
    /\ cards' = [cards EXCEPT
           !.inbox[c] = Tail(cards.inbox[c]),
           !.editing[c] = E,
           !.cards[c] = IF refresh
                            THEN build_cards_data(cards.session_id[c], E, cards.edit_locks)
                        ELSE cards.cards[c]]
    /\ ev' = [Step("cards_handle_info", c, <<>>, FALSE, <<>>) EXCEPT !.event = e]
    /\ UNCHANGED <<regVars, raceVars, db, conn, editing, items, inbox, pc, map_ctx, txn, gameVars>>

NextCards ==
    \/ \E c \in Sessions, b \in Sessions : CardsMount(c, b)
    \/ \E c \in Sessions, k \in CardKeys : CardsStartEdit(c, k)
    \/ \E c \in Sessions, k \in CardKeys : CardsCancelEdit(c, k)
    \/ \E c \in Sessions : CardsDisconnect(c)
    \/ \E c \in Sessions : CardsHandleInfo(c)

SpecCards == Init /\ [][NextCards]_vars

\* C26: every live connection has a session_id different from that of every other
\* live connection, so that a lock held by one connection makes start_edit fail for
\* every other connection (no field has the drafts of two live connections) and is
\* not released when another connection disconnects (a live connection that got a
\* draft from start_edit still holds the lock).
C26_UniqueSessionIds ==
    /\ \A c1, c2 \in Sessions :
           (Live(c1) /\ Live(c2) /\ c1 # c2)
               => cards.session_id[c1] # cards.session_id[c2]
    /\ \A k \in CardKeys :
           Cardinality({c \in Sessions : Live(c) /\ cards.editing[c][k] # NoDraft}) <= 1
    /\ \A k \in CardKeys, c \in Sessions :
           (Live(c) /\ cards.editing[c][k] # NoDraft)
               => cards.edit_locks[k] = cards.session_id[c]

(***************************************************************************)
(* SpecTxn: a writer that saves and deletes rows of ItemLabel, in autocommit *)
(* mode or inside an atomic block (Django admin, a script), with the         *)
(* post_save / post_delete handlers of src/alive/signals.py connected, and   *)
(* sessions of the generated view that react to what is published. db is the *)
(* committed state, which is what the sessions fetch. transaction.on_commit  *)
(* is Django's: inside an atomic block the callback is kept until the commit *)
(* and dropped by a rollback, in autocommit mode it runs at once, after the  *)
(* row is written. The loop given to set_event_loop runs as long as writes   *)
(* are made.                                                                 *)
(***************************************************************************)
Outcomes == {"delivered", "send_error"}

NoResult == [sent |-> <<>>, log |-> <<>>, raised |-> FALSE]

\* a plausible bug: without an event loop the error reaches the caller
broadcast_change_raises(event_loop, outcome, e) ==
    IF event_loop
        THEN IF outcome = "delivered"
                 THEN [sent |-> <<e>>, log |-> <<>>, raised |-> FALSE]
             ELSE [sent |-> <<>>, log |-> <<"Broadcast error">>, raised |-> FALSE]
    ELSE [sent |-> <<>>, log |-> <<>>, raised |-> TRUE]

\* broadcast_change: the event handed to the hub on the event loop; outcome is what
\* becomes of send_all_on_topic_async, seen only by on_done
broadcast_change(event_loop, outcome, e) ==
    IF event_loop
        THEN IF outcome = "delivered"
                 THEN [sent |-> <<e>>, log |-> <<>>, raised |-> FALSE]
             ELSE [sent |-> <<>>, log |-> <<"Broadcast error">>, raised |-> FALSE]
    ELSE [sent |-> <<>>, log |-> <<"Warning: No event loop configured">>, raised |-> FALSE]

\* the callbacks run one after the other; one that raises ends the run
RECURSIVE run_callbacks(_, _, _)
run_callbacks(event_loop, cbs, outs) ==
    IF cbs = <<>> THEN NoResult
    ELSE LET b == broadcast_change(event_loop, Head(outs), Head(cbs)) IN
         IF b.raised THEN b
         ELSE LET rest == run_callbacks(event_loop, Tail(cbs), Tail(outs)) IN
              [sent |-> b.sent \o rest.sent, log |-> b.log \o rest.log,
               raised |-> rest.raised]

\* a plausible bug: do_broadcast is called in the signal handler itself
on_commit_immediate(in_atomic, run_on_commit, cb) ==
    [run_on_commit |-> run_on_commit, now |-> <<cb>>]

\* transaction.on_commit(do_broadcast) as on_save / on_delete call it
on_commit(in_atomic, run_on_commit, cb) ==
    IF in_atomic THEN [run_on_commit |-> Append(run_on_commit, cb), now |-> <<>>]
    ELSE [run_on_commit |-> run_on_commit, now |-> <<cb>>]

\* the value the writer's last uncommitted write gave to key k, given D otherwise
RECURSIVE Written(_, _)
Written(D, pending) ==
    IF pending = <<>> THEN D
    ELSE Written([D EXCEPT ![Head(pending)[1]] = Head(pending)[2]], Tail(pending))

\* the result the writer's caller gets: set_field_value returns False on an exception
Reported(raised) == IF raised THEN "failed" ELSE "ok"

\* set_event_loop(loop), called by setup_alive
SetEventLoop ==
    /\ ~txn.event_loop
    /\ txn' = [txn EXCEPT !.event_loop = TRUE]
    /\ ev' = Step("set_event_loop", None, <<>>, FALSE, <<>>)
    /\ UNCHANGED <<regVars, raceVars, db, conn, editing, items, inbox, pc, map_ctx, cards, gameVars>>

\* entering transaction.atomic()
TxnBegin ==
    /\ ~txn.in_atomic
    /\ txn' = [txn EXCEPT !.in_atomic = TRUE, !.ret = "none", !.log = <<>>]
    /\ ev' = Step("begin", None, <<>>, FALSE, <<>>)
    /\ UNCHANGED <<regVars, raceVars, db, conn, editing, items, inbox, pc, map_ctx, cards, gameVars>>

\* a write of the row of key k (value = Missing for a delete) with its signal handler:
\* handler is on_save or on_delete
TxnWrite(op, k, value, handler, outcome) ==
    LET oc == on_commit(txn.in_atomic, txn.run_on_commit, handler[1])
        b == run_callbacks(txn.event_loop, oc.now, <<outcome>>)
    IN
    /\ Written(db, txn.pending)[k] # Missing
    /\ Len(txn.run_on_commit) < MaxInbox
    /\ Room(Len(txn.run_on_commit) + 1)
    /\ db' = IF txn.in_atomic THEN db ELSE [db EXCEPT ![k] = value]
    /\ txn' = [txn EXCEPT
           !.pending = IF txn.in_atomic THEN Append(txn.pending, <<k, value>>) ELSE <<>>,
           !.run_on_commit = oc.run_on_commit,
           !.log = b.log,
           !.raised = b.raised,
           !.ret = Reported(b.raised)]
    /\ inbox' = Deliver(inbox, conn, b.sent)
    /\ ev' = [Step(op, None, k, ~txn.in_atomic, b.sent) EXCEPT !.draft = value]
    /\ UNCHANGED <<regVars, raceVars, conn, editing, items, pc, map_ctx, cards, gameVars>>

\* instance.save() with post_save -> on_save
TxnSave(k, value, outcome) == TxnWrite("save", k, value, on_save(k), outcome)

\* instance.delete() with post_delete -> on_delete
TxnDelete(k, outcome) == TxnWrite("delete", k, Missing, on_delete(k), outcome)

\* leaving the atomic block without an exception: commit, then run_on_commit
TxnCommit(outs) ==
    LET b == run_callbacks(txn.event_loop, txn.run_on_commit, outs) IN
    /\ txn.in_atomic
    /\ Len(outs) = Len(txn.run_on_commit)
    /\ Room(Len(txn.run_on_commit))
    /\ db' = Written(db, txn.pending)
    /\ txn' = [txn EXCEPT
           !.in_atomic = FALSE, !.pending = <<>>, !.run_on_commit = <<>>,
           !.log = b.log, !.raised = b.raised, !.ret = Reported(b.raised)]
    /\ inbox' = Deliver(inbox, conn, b.sent)
    /\ ev' = [Step("commit", None, <<>>, txn.pending # <<>>, b.sent) EXCEPT
                 !.event = txn.pending]
    /\ UNCHANGED <<regVars, raceVars, conn, editing, items, pc, map_ctx, cards, gameVars>>

\* leaving the atomic block with an exception: the writes and run_on_commit are dropped
TxnRollback ==
    /\ txn.in_atomic
    /\ txn' = [txn EXCEPT
           !.in_atomic = FALSE, !.pending = <<>>, !.run_on_commit = <<>>,
           !.ret = "failed"]
    /\ ev' = [Step("rollback", None, <<>>, FALSE, <<>>) EXCEPT !.event = txn.pending]
    /\ UNCHANGED <<regVars, raceVars, db, conn, editing, items, inbox, pc, map_ctx, cards, gameVars>>

OutcomeSeqs == UNION {[1..n -> Outcomes] : n \in 0..MaxInbox}

NextTxn ==
    \/ SetEventLoop
    \/ TxnBegin
    \/ \E k \in ItemKeys, v \in Values, o \in Outcomes : TxnSave(k, v, o)
    \/ \E k \in ItemKeys, o \in Outcomes : TxnDelete(k, o)
    \/ \E outs \in OutcomeSeqs : TxnCommit(outs)
    \/ TxnRollback
    \/ \E s \in Sessions : Mount(s)
    \/ \E s \in Sessions : HandleInfo(s)

SpecTxn == Init /\ [][NextTxn]_vars

\* C21: publish-after-commit. A step that puts an event into an inbox is the commit
\* of the writes the event is about: the transaction is closed after it and the
\* committed state, which a subscriber fetches, has the written values. A write
\* inside an open transaction and a rollback publish nothing, and a rollback leaves
\* the committed state as it was and forgets the callbacks.
C21_PublishAfterCommit ==
    [][/\ (\E s \in Sessions : conn[s] /\ Len(inbox'[s]) > Len(inbox[s]))
              => /\ ev'.op \in {"save", "delete", "commit"}
                 /\ ~txn'.in_atomic /\ txn'.pending = <<>>
                 /\ ~txn.in_atomic => db'[ev'.key] = ev'.draft
                 /\ txn.in_atomic => db' = Written(db, txn.pending)
       /\ (txn.in_atomic /\ txn'.in_atomic)
              => /\ db' = db
                 /\ \A s \in Sessions : conn[s] => Len(inbox'[s]) <= Len(inbox[s])
       /\ ev'.op = "rollback"
              => /\ db' = db /\ txn'.run_on_commit = <<>>
                 /\ \A s \in Sessions : conn[s] => inbox'[s] = inbox[s]]_vars

\* a subscriber handled the state_changed of a committed transaction and its fetch
\* shows the written value
C21_Witness ==
    /\ ev.op = "handle_info" /\ ev.event.action = "state_changed"
    /\ ~txn.in_atomic /\ txn.ret = "ok"
    /\ \E k \in ItemKeys : Rendered(ev.sid, k) /\ items[ev.sid][k].value \in Values

\* an atomic block with a write was rolled back while a subscriber was connected
C21_WitnessRollback ==
    /\ ev.op = "rollback" /\ ev.event # <<>>
    /\ \E s \in Sessions : conn[s] /\ inbox[s] = <<>>

\* C22: a notification delivery failure never fails the mutation. No write raises
\* because of broadcast_change, and a committed write whose event was not delivered
\* (no event loop, or a delivery error) is in the committed state and is reported ok.
C22_DeliveryFailureKeepsWrite ==
    /\ ~txn.raised
    /\ (ev.op \in {"save", "delete"} /\ ev.wrote /\ ev.sent = <<>>)
           => txn.ret = "ok" /\ db[ev.key] = ev.draft
    /\ (ev.op = "commit" /\ ev.wrote /\ Len(ev.sent) < Len(ev.event))
           => txn.ret = "ok" /\ db = Written(db, ev.event)

\* a save in autocommit mode whose delivery failed while the event loop was set
C22_Witness ==
    /\ ev.op = "save" /\ ev.wrote /\ ev.sent = <<>>
    /\ txn.event_loop /\ txn.log = <<"Broadcast error">>
    /\ db[ev.key] = ev.draft /\ txn.ret = "ok"

\* a save in autocommit mode with no event loop configured
C22_WitnessNoLoop ==
    /\ ev.op = "save" /\ ev.wrote /\ ev.sent = <<>>
    /\ ~txn.event_loop /\ txn.log = <<"Warning: No event loop configured">>
    /\ db[ev.key] = ev.draft /\ txn.ret = "ok"

(***************************************************************************)
(* SpecMap: sessions of the generated view of the HexMap model (template     *)
(* map.html). The detail popup shows a Situation row and edits its name and  *)
(* notes under locks of kind cards.situation. The view's store.channel is    *)
(* that of HexMap; HexMap lists no inline relation, so the sessions          *)
(* subscribe to that channel alone.                                          *)
(***************************************************************************)
MapLabel == "cards.hexmap"
MapChannel == Channel(MapLabel)
SituationChannel == Channel(SituationLabel)

\* handle_info of a map session: store.channel, no inline target channels
map_subscribed_channels == {MapChannel}

DetailFields == {"name", "notes"}
situation_key(detail_id, field_name) == <<SituationLabel, detail_id, field_name>>

\* str(val) if val else ""
str_or_empty(val) == IF val = Missing THEN "" ELSE val

\* socket.broadcast to the sessions of the map view
MapDeliver(inb, C, evs) ==
    [s \in Sessions |->
        IF C[s] THEN inb[s] \o SelectSeq(evs, LAMBDA e : e.chan \in map_subscribed_channels)
        ELSE <<>>]

\* _close_map_detail: release the lock of the field being edited, clear the popup
close_map_detail(c, session_id, L) ==
    LET detail_id == c.map_detail.id
        field_name == c.map_detail_editing
    IN
    [locks |-> IF detail_id # None /\ field_name # ""
                   THEN release_lock(L, situation_key(detail_id, field_name), session_id).locks
                   ELSE L,
     ctx |-> ClosedCtx]

\* _refresh_map_detail: fetch the row again and compute name_locked / notes_locked
refresh_map_detail(c, session_id, L, D) ==
    LET detail_id == c.map_detail.id IN
    IF detail_id = None THEN c
    ELSE IF D[situation_key(detail_id, "name")] = Missing THEN ClosedCtx
    ELSE [c EXCEPT !.map_detail =
             [id |-> detail_id,
              name |-> D[situation_key(detail_id, "name")],
              notes |-> D[situation_key(detail_id, "notes")],
              name_locked |->
                  get_lock_holder(L, situation_key(detail_id, "name")) \notin {None, session_id},
              notes_locked |->
                  get_lock_holder(L, situation_key(detail_id, "notes")) \notin {None, session_id}]]

MapStep(op, s, k, wrote, sent) ==
    [Step(op, s, k, wrote, sent) EXCEPT
         !.holder = IF k \in LockKeys THEN get_lock_holder(locks, k) ELSE None]

\* mount of a map session: default context, subscription to store.channel
MapMount(s) ==
    /\ ~conn[s]
    /\ conn' = [conn EXCEPT ![s] = TRUE]
    /\ map_ctx' = [map_ctx EXCEPT ![s] = ClosedCtx]
    /\ inbox' = [inbox EXCEPT ![s] = <<>>]
    /\ ev' = [NoEv EXCEPT !.op = "mount", !.sid = s]
    /\ UNCHANGED <<locks, db, editing, items, pc, owns, last, raceVars, extVars>>

\* handle_event "open_map_detail"
OpenMapDetail(s, id) ==
    LET c == close_map_detail(map_ctx[s], s, locks)
        opened == [c.ctx EXCEPT !.map_detail = [NoDetail EXCEPT !.id = id]]
    IN
    /\ Ready(s)
    /\ locks' = c.locks
    /\ map_ctx' = [map_ctx EXCEPT ![s] = refresh_map_detail(opened, s, c.locks, db)]
    /\ ev' = Step("open_map_detail", s, <<>>, FALSE, <<>>)
    /\ UNCHANGED <<db, conn, editing, items, inbox, pc, owns, last, raceVars, extVars>>

\* handle_event "close_map_detail"
CloseMapDetail(s) ==
    LET had_editing == map_ctx[s].map_detail_editing # ""
        c == close_map_detail(map_ctx[s], s, locks)
        sent == IF had_editing THEN <<Event(MapChannel, "state_changed")>> ELSE <<>>
    IN
    /\ Ready(s)
    /\ Room(Len(sent))
    /\ locks' = c.locks
    /\ map_ctx' = [map_ctx EXCEPT ![s] = c.ctx]
    /\ inbox' = MapDeliver(inbox, conn, sent)
    /\ ev' = Step("close_map_detail", s, <<>>, FALSE, sent)
    /\ UNCHANGED <<db, conn, editing, items, pc, owns, last, raceVars, extVars>>

\* handle_event "map_start_edit"
MapStartEdit(s, field_name) ==
    LET detail_id == map_ctx[s].map_detail.id
        k == situation_key(detail_id, field_name)
        r == acquire_lock(locks, k, s)
        c == IF r.ret
                 THEN [map_ctx[s] EXCEPT !.map_detail_editing = field_name,
                                         !.map_detail_draft = str_or_empty(db[k])]
                 ELSE map_ctx[s]
        sent == IF r.ret THEN <<Event(MapChannel, "state_changed")>> ELSE <<>>
    IN
    /\ Ready(s)
    /\ detail_id # None
    /\ Room(Len(sent))
    /\ locks' = r.locks
    /\ map_ctx' = [map_ctx EXCEPT ![s] = refresh_map_detail(c, s, r.locks, db)]
    /\ inbox' = MapDeliver(inbox, conn, sent)
    /\ ev' = MapStep("map_start_edit", s, k, FALSE, sent)
    /\ UNCHANGED <<db, conn, editing, items, pc, owns, last, raceVars, extVars>>

\* handle_event "map_update_draft"
MapUpdateDraft(s, v) ==
    /\ Ready(s)
    /\ map_ctx' = [map_ctx EXCEPT ![s].map_detail_draft = v]
    /\ ev' = Step("map_update_draft", s, <<>>, FALSE, <<>>)
    /\ UNCHANGED <<locks, db, conn, editing, items, inbox, pc, owns, last, raceVars, extVars>>

\* handle_event "map_cancel_edit"
MapCancelEdit(s) ==
    LET detail_id == map_ctx[s].map_detail.id
        field_name == map_ctx[s].map_detail_editing
        L == IF detail_id # None /\ field_name # ""
                 THEN release_lock(locks, situation_key(detail_id, field_name), s).locks
                 ELSE locks
        c == [map_ctx[s] EXCEPT !.map_detail_editing = "", !.map_detail_draft = ""]
        sent == <<Event(MapChannel, "state_changed")>>
    IN
    /\ Ready(s)
    /\ Room(1)
    /\ locks' = L
    /\ map_ctx' = [map_ctx EXCEPT ![s] = refresh_map_detail(c, s, L, db)]
    /\ inbox' = MapDeliver(inbox, conn, sent)
    /\ ev' = Step("map_cancel_edit", s, <<>>, FALSE, sent)
    /\ UNCHANGED <<db, conn, editing, items, pc, owns, last, raceVars, extVars>>

\* handle_event "map_save_edit" up to the await of _save_field
MapSaveEdit(s) ==
    LET detail_id == map_ctx[s].map_detail.id
        field_name == map_ctx[s].map_detail_editing
        value == map_ctx[s].map_detail_draft
        k == situation_key(detail_id, field_name)
        owner == ~(get_lock_holder(locks, k) # s)
        w == set_field_value(db, k, value)
        c == [map_ctx[s] EXCEPT !.map_detail_editing = "", !.map_detail_draft = ""]
    IN
    /\ Ready(s)
    /\ detail_id # None /\ field_name # ""
    /\ Room(IF owner THEN 1 ELSE 0)
    /\ db' = IF owner THEN w.db ELSE db
    /\ map_ctx' = IF owner THEN map_ctx
                  ELSE [map_ctx EXCEPT ![s] = refresh_map_detail(c, s, locks, db)]
    /\ pc' = IF owner THEN [pc EXCEPT ![s] = [at |-> "map_save", key |-> k,
                                               value |-> value, success |-> w.ret]]
             ELSE pc
    /\ ev' = [MapStep("map_save_edit", s, k, owner /\ w.ret, <<>>) EXCEPT !.draft = value]
    /\ UNCHANGED <<locks, conn, editing, items, inbox, owns, last, raceVars, extVars>>

\* "map_save_edit" after the write: release, clear, refresh, broadcast
MapSaveFinish(s) ==
    LET k == pc[s].key
        r == release_lock(locks, k, s)
        c == [map_ctx[s] EXCEPT !.map_detail_editing = "", !.map_detail_draft = ""]
        sent == <<Event(MapChannel, "state_changed")>>
    IN
    /\ conn[s] /\ pc[s].at = "map_save"
    /\ locks' = r.locks
    /\ map_ctx' = [map_ctx EXCEPT ![s] = refresh_map_detail(c, s, r.locks, db)]
    /\ pc' = [pc EXCEPT ![s] = Idle]
    /\ inbox' = MapDeliver(inbox, conn, sent)
    /\ ev' = [Step("map_save_done", s, k, pc[s].success, sent) EXCEPT
                  !.draft = pc[s].value]
    /\ UNCHANGED <<db, conn, editing, items, owns, last, raceVars, extVars>>

\* GeneratedModelLiveView.disconnect of a map session
MapDisconnect(s) ==
    LET r == release_all_locks(locks, s)
        chans == affected_channels(r.released)
        sent == [i \in 1..Len(chans) |-> Event(chans[i], "locks_released")]
        C == [conn EXCEPT ![s] = FALSE]
    IN
    /\ Ready(s)
    /\ locks' = r.locks
    /\ conn' = C
    /\ map_ctx' = [map_ctx EXCEPT ![s] = ClosedCtx]
    /\ inbox' = MapDeliver(inbox, C, sent)
    /\ ev' = [Step("disconnect", s, <<>>, FALSE, sent) EXCEPT !.key = r.released]
    /\ UNCHANGED <<db, editing, items, pc, owns, last, raceVars, extVars>>

\* handle_info of a map session: _refresh_view_async ends in _load_map_data, which
\* refreshes the open detail popup
map_handle_info(s, e) ==
    IF e.chan \notin map_subscribed_channels THEN map_ctx[s]
    ELSE IF e.action \in RefreshActions \cup {"conflict"}
        THEN refresh_map_detail(map_ctx[s], s, locks, db)
    ELSE map_ctx[s]

MapHandleInfo(s) ==
    LET e == Head(inbox[s]) IN
    /\ Ready(s)
    /\ inbox[s] # <<>>
    /\ inbox' = [inbox EXCEPT ![s] = Tail(inbox[s])]
    /\ map_ctx' = [map_ctx EXCEPT ![s] = map_handle_info(s, e)]
    /\ ev' = [Step("handle_info", s, <<>>, FALSE, <<>>) EXCEPT !.event = e]
    /\ UNCHANGED <<locks, db, conn, editing, items, pc, owns, last, raceVars, extVars>>

\* the hub hands handle_info of s an event of the Situation channel
MapForeignEvent(s, e) ==
    /\ Ready(s)
    /\ map_ctx' = [map_ctx EXCEPT ![s] = map_handle_info(s, e)]
    /\ ev' = [Step("handle_info", s, <<>>, FALSE, <<>>) EXCEPT !.event = e]
    /\ UNCHANGED <<locks, db, conn, editing, items, inbox, pc, owns, last, raceVars, extVars>>

NextMap ==
    \/ \E s \in Sessions : MapMount(s)
    \/ \E s \in Sessions, id \in RowIds : OpenMapDetail(s, id)
    \/ \E s \in Sessions : CloseMapDetail(s)
    \/ \E s \in Sessions, f \in DetailFields : MapStartEdit(s, f)
    \/ \E s \in Sessions, v \in Values : MapUpdateDraft(s, v)
    \/ \E s \in Sessions : MapCancelEdit(s)
    \/ \E s \in Sessions : MapSaveEdit(s)
    \/ \E s \in Sessions : MapSaveFinish(s)
    \/ \E s \in Sessions : MapDisconnect(s)
    \/ \E s \in Sessions : MapHandleInfo(s)
    \/ \E s \in Sessions : MapForeignEvent(s, Event(SituationChannel, "locks_released"))

SpecMap == Init /\ [][NextMap]_vars

\* C33: map-detail editing holds at most one lock. A session holds the lock of
\* (cards.situation, detail id, field) only while that detail is open in its popup
\* and map_detail_editing equals that field, so it never holds two of them.
C33_MapDetailOneLock ==
    \A s \in Sessions, k \in SituationKeys :
        get_lock_holder(locks, k) = s
            => /\ map_ctx[s].map_detail.id = k[2]
               /\ map_ctx[s].map_detail_editing = k[3]

(***************************************************************************)
(* SpecMapInfo: sessions of the map view that edit in the detail popup and   *)
(* handle the events of their channel, while Situation rows are deleted      *)
(* through another view.                                                     *)
(***************************************************************************)
\* DjangoDataStore.delete_item of the Situation model, called by another view: the
\* row is gone; post_delete publishes item_deleted on the Situation channel
SituationDeleted(id) ==
    /\ db[situation_key(id, "name")] # Missing
    /\ db' = [k \in LockKeys |->
                 IF k[1] = SituationLabel /\ k[2] = id THEN Missing ELSE db[k]]
    /\ inbox' = MapDeliver(inbox, conn, on_delete(situation_key(id, "name")))
    /\ ev' = Step("situation_deleted", None, situation_key(id, "name"), FALSE,
                  on_delete(situation_key(id, "name")))
    /\ UNCHANGED <<locks, conn, editing, items, pc, map_ctx, owns, last, raceVars, extVars>>

NextMapInfo ==
    \/ \E s \in Sessions : MapMount(s)
    \/ \E s \in Sessions, id \in RowIds : OpenMapDetail(s, id)
    \/ \E s \in Sessions, f \in DetailFields : MapStartEdit(s, f)
    \/ \E s \in Sessions, v \in Values : MapUpdateDraft(s, v)
    \/ \E s \in Sessions : MapCancelEdit(s)
    \/ \E s \in Sessions : MapHandleInfo(s)
    \/ \E id \in RowIds : SituationDeleted(id)

SpecMapInfo == Init /\ [][NextMapInfo]_vars

\* C18: handling a state_changed, item_created, item_deleted or locks_released event
\* changes no draft of the receiving session (neither an entry of editing nor the
\* draft of the map detail popup), no registry entry and no stored value; in a view
\* subscribed to the event's channel the session's rendered snapshot is rebuilt.
C18_RefreshKeepsDrafts ==
    [][(ev'.op = "handle_info" /\ ev'.event.action \in RefreshActions)
           => /\ editing' = editing
              /\ map_ctx'[ev'.sid].map_detail_editing = map_ctx[ev'.sid].map_detail_editing
              /\ map_ctx'[ev'.sid].map_detail_draft = map_ctx[ev'.sid].map_detail_draft
              /\ locks' = locks
              /\ db' = db
              /\ Handles(ev'.event, RefreshActions)
                     => items' = Refreshed(ev'.sid, editing, locks, db)]_vars

\* session b shows the field of lock key k as locked by someone else
RendersLocked(b, k) ==
    \/ k \in DOMAIN items[b] /\ items[b][k].is_locked
    \/ /\ k[1] = SituationLabel
       /\ map_ctx[b].map_detail.id = k[2]
       /\ \/ k[3] = "name" /\ map_ctx[b].map_detail.name_locked
          \/ k[3] = "notes" /\ map_ctx[b].map_detail.notes_locked

\* C6: abandoned-session cleanup reaches every viewer. When a session disconnects,
\* every connected session that renders one of the released keys as locked has
\* received a locks_released event of that disconnect on the key's channel.
C6_DisconnectReachesViewers ==
    ev.op = "disconnect" =>
        \A b \in Sessions, i \in DOMAIN ev.key :
            (conn[b] /\ RendersLocked(b, ev.key[i]))
                => \E j \in DOMAIN inbox[b] :
                       inbox[b][j] = Event(Channel(ev.key[i][1]), "locks_released")

(***************************************************************************)
(* SpecOrder: SharedState.move_card, reorder_card and move_to_position of    *)
(* src/state.py on the list of card ids. Python list indices start at 0; a   *)
(* list is a sequence here, so index i is element i + 1.                     *)
(***************************************************************************)
CardIds == 1..NumCards
NoIndex == 0 - 1

\* SharedState.get_card_index: the index of the first card with that id, or None
get_card_index(cs, card_id) ==
    IF \E i \in 1..Len(cs) : cs[i] = card_id
        THEN (CHOOSE i \in 1..Len(cs) :
                  cs[i] = card_id /\ \A j \in 1..(i - 1) : cs[j] # card_id) - 1
    ELSE NoIndex

\* list.pop(index)
pop(cs, index) == [i \in 1..(Len(cs) - 1) |-> IF i <= index THEN cs[i] ELSE cs[i + 1]]

\* list.insert(index, card) for 0 <= index <= len
insert(cs, index, card) ==
    [i \in 1..(Len(cs) + 1) |->
        IF i <= index THEN cs[i] ELSE IF i = index + 1 THEN card ELSE cs[i - 1]]

max(a, b) == IF a >= b THEN a ELSE b
min(a, b) == IF a <= b THEN a ELSE b

\* SharedState.move_card
move_card(cs, card_id, direction) ==
    LET index == get_card_index(cs, card_id)
        new_index == index + direction
    IN
    IF index = NoIndex THEN [cards |-> cs, ret |-> FALSE]
    ELSE IF new_index < 0 \/ new_index >= Len(cs) THEN [cards |-> cs, ret |-> FALSE]
    ELSE [cards |-> [cs EXCEPT ![index + 1] = cs[new_index + 1],
                               ![new_index + 1] = cs[index + 1]],
          ret |-> TRUE]

\* SharedState.reorder_card
reorder_card(cs, card_id, target_id, insert_after) ==
    LET source_index == get_card_index(cs, card_id)
        target_index == get_card_index(cs, target_id)
        adjusted == IF source_index < target_index THEN target_index - 1 ELSE target_index
    IN
    IF source_index = NoIndex \/ target_index = NoIndex THEN [cards |-> cs, ret |-> FALSE]
    ELSE IF source_index = target_index THEN [cards |-> cs, ret |-> FALSE]
    ELSE [cards |-> insert(pop(cs, source_index),
                           IF insert_after THEN adjusted + 1 ELSE adjusted,
                           cs[source_index + 1]),
          ret |-> TRUE]

\* a plausible bug: the card is inserted without being removed first
move_to_position_nopop(cs, card_id, position) ==
    LET source_index == get_card_index(cs, card_id)
        clamped == max(0, min(position, Len(cs) - 1))
    IN
    IF source_index = NoIndex THEN [cards |-> cs, ret |-> FALSE]
    ELSE IF source_index = clamped THEN [cards |-> cs, ret |-> FALSE]
    ELSE [cards |-> insert(cs, clamped, cs[source_index + 1]), ret |-> TRUE]

\* SharedState.move_to_position
move_to_position(cs, card_id, position) ==
    LET source_index == get_card_index(cs, card_id)
        clamped == max(0, min(position, Len(cs) - 1))
    IN
    IF source_index = NoIndex THEN [cards |-> cs, ret |-> FALSE]
    ELSE IF source_index = clamped THEN [cards |-> cs, ret |-> FALSE]
    ELSE [cards |-> insert(pop(cs, source_index), clamped, cs[source_index + 1]),
          ret |-> TRUE]

OrderFrame == UNCHANGED <<regVars, raceVars, sessVars, cards, txn, game, levels>>

\* a call of move_card; card id 0 is the id of no card
MoveCard(card_id, direction) ==
    LET r == move_card(card_order.cards, card_id, direction) IN
    /\ card_order' = [cards |-> r.cards,
                      last |-> [op |-> "move_card", card_id |-> card_id,
                                arg |-> direction, after |-> FALSE, ret |-> r.ret,
                                before |-> card_order.cards]]
    /\ OrderFrame

\* a call of reorder_card
ReorderCard(card_id, target_id, insert_after) ==
    LET r == reorder_card(card_order.cards, card_id, target_id, insert_after) IN
    /\ card_order' = [cards |-> r.cards,
                      last |-> [op |-> "reorder_card", card_id |-> card_id,
                                arg |-> target_id, after |-> insert_after, ret |-> r.ret,
                                before |-> card_order.cards]]
    /\ OrderFrame

\* a call of move_to_position
MoveToPosition(card_id, position) ==
    LET r == move_to_position(card_order.cards, card_id, position) IN
    /\ card_order' = [cards |-> r.cards,
                      last |-> [op |-> "move_to_position", card_id |-> card_id,
                                arg |-> position, after |-> FALSE, ret |-> r.ret,
                                before |-> card_order.cards]]
    /\ OrderFrame

NextOrder ==
    \/ \E c \in CardIds \cup {0}, d \in (0 - 2)..2 : MoveCard(c, d)
    \/ \E c, t \in CardIds \cup {0}, a \in BOOLEAN : ReorderCard(c, t, a)
    \/ \E c \in CardIds \cup {0}, p \in (0 - 2)..(NumCards + 1) : MoveToPosition(c, p)

SpecOrder == Init /\ [][NextOrder]_vars

\* C39: move_card, reorder_card and move_to_position never add, drop or duplicate a
\* card: the list is always a permutation of the original list; a call that returned
\* False left the order unchanged; after move_to_position(card, p) returned True the
\* card is at index p clamped to [0, len - 1].
C39_OrderIsPermutation ==
    /\ Len(card_order.cards) = NumCards
    /\ \A c \in CardIds : Cardinality({i \in 1..Len(card_order.cards) :
                                            card_order.cards[i] = c}) = 1
    /\ ~card_order.last.ret => card_order.cards = card_order.last.before
    /\ (card_order.last.op = "move_to_position" /\ card_order.last.ret)
           => card_order.cards[max(0, min(card_order.last.arg, NumCards - 1)) + 1]
                  = card_order.last.card_id

\* move_to_position with a position past the end moved a card from the front to the
\* last index
C39_Witness ==
    /\ card_order.last.op = "move_to_position" /\ card_order.last.ret
    /\ card_order.last.arg > NumCards - 1
    /\ card_order.last.before[1] = card_order.last.card_id
    /\ card_order.cards[NumCards] = card_order.last.card_id

(***************************************************************************)
(* SpecLevel: the handlers that adjust a level by a delta taken from the     *)
(* payload: adjust_inline_field on a row of the through model, and           *)
(* adjust_situation_card_level on a SituationCard (context shows dice) or a  *)
(* CharacterCard (no dice). A payload whose delta is no integer makes int()  *)
(* raise before anything is stored.                                          *)
(***************************************************************************)
Deltas == (0 - MaxDelta)..MaxDelta

\* a plausible bug: only the upper limit is applied
clamp_level_upperonly(level, delta) == min(MaxLevel, level + delta)

\* max(1, min(10, level + delta))
clamp_level(level, delta) == max(MinLevel, min(MaxLevel, level + delta))

LevelFrame == UNCHANGED <<regVars, raceVars, sessVars, cards, txn, game, card_order>>

\* handle_event "adjust_inline_field": the level update_through_field stores; the
\* refresh and the broadcast that follow store nothing
AdjustInlineField(delta) ==
    LET current == levels.through
        new_val == clamp_level(current, delta)
    IN
    /\ levels' = [levels EXCEPT
           !.through = new_val,
           !.last = [op |-> "adjust_inline_field", delta |-> delta, old |-> current]]
    /\ LevelFrame

\* handle_event "adjust_situation_card_level" of a keeper: the level _adjust stores;
\* has_dice is bool(socket.context.situation_dice)
AdjustSituationCardLevel(delta, has_dice) ==
    LET old == IF has_dice THEN levels.situation_card ELSE levels.character_card
        new_val == clamp_level(old, delta)
    IN
    /\ delta # 0
    /\ levels' = [levels EXCEPT
           !.situation_card = IF has_dice THEN new_val ELSE @,
           !.character_card = IF has_dice THEN @ ELSE new_val,
           !.last = [op |-> IF has_dice THEN "adjust_situation_card"
                            ELSE "adjust_character_card",
                     delta |-> delta, old |-> old]]
    /\ LevelFrame

NextLevel ==
    \/ \E d \in Deltas : AdjustInlineField(d)
    \/ \E d \in Deltas, h \in BOOLEAN : AdjustSituationCardLevel(d, h)

SpecLevel == Init /\ [][NextLevel]_vars

\* the level the last adjustment stored
StoredLevel ==
    IF levels.last.op = "adjust_inline_field" THEN levels.through
    ELSE IF levels.last.op = "adjust_situation_card" THEN levels.situation_card
    ELSE levels.character_card

\* C38: adjust_inline_field and adjust_situation_card_level always store a level
\* within 1..10: the stored value is the old value plus delta clamped to [1, 10],
\* so after any sequence of adjustments every level is in that range.
C38_LevelClamped ==
    /\ levels.through \in 1..10
    /\ levels.situation_card \in 1..10
    /\ levels.character_card \in 1..10
    /\ levels.last.op # "none"
           => StoredLevel = (IF levels.last.old + levels.last.delta < 1 THEN 1
                             ELSE IF levels.last.old + levels.last.delta > 10 THEN 10
                             ELSE levels.last.old + levels.last.delta)

\* an adjustment whose sum lies below the range stored 1 and one whose sum lies above
\* it stored 10
C38_Witness ==
    /\ levels.last.op = "adjust_situation_card"
    /\ levels.last.old + levels.last.delta < 1
    /\ levels.situation_card = 1
    /\ levels.through = 10

(***************************************************************************)
(* SpecSignals: rows of the models with AliveMixin are created, saved and    *)
(* deleted in autocommit mode with the handlers setup_signals connected, and *)
(* sessions of the generated view receive what is published. The events      *)
(* carry the payload of broadcast_change: the action and the item_id.        *)
(***************************************************************************)
SignalKeys == ItemKeys \cup NameKeys

\* broadcast_change: payload = {"action": action, "item_id": item_id} on the channel
signal_event(channel, action, item_id) ==
    [chan |-> channel, action |-> action, key |-> <<>>, by |-> None, item_id |-> item_id]

\* a plausible bug: the created flag is not looked at
post_save_nocreated(k, created) ==
    <<signal_event(Channel(k[1]), "state_changed", k[2])>>

\* _make_save_handler: on_save(sender, instance, created) with store.channel
post_save(k, created) ==
    <<signal_event(Channel(k[1]), IF created THEN "item_created" ELSE "state_changed",
                   k[2])>>

\* _make_delete_handler: on_delete(sender, instance) with store.channel
post_delete(k) == <<signal_event(Channel(k[1]), "item_deleted", k[2])>>

SameRow(x, k) == x[1] = k[1] /\ x[2] = k[2]

\* the committed write of a row and the callback on_commit runs at once
SigWrite(op, k, D, handler, outcome) ==
    LET oc == on_commit(FALSE, <<>>, handler[1])
        b == run_callbacks(txn.event_loop, oc.now, <<outcome>>)
    IN
    /\ ~txn.in_atomic
    /\ Room(1)
    /\ db' = D
    /\ txn' = [txn EXCEPT !.log = b.log, !.raised = b.raised, !.ret = Reported(b.raised)]
    /\ inbox' = Deliver(inbox, conn, b.sent)
    /\ ev' = Step(op, None, k, TRUE, b.sent)
    /\ UNCHANGED <<regVars, raceVars, conn, editing, items, pc, map_ctx, cards, gameVars>>

\* instance.save() of a new row (created = True) or of an existing one
SigSave(k, value, outcome) ==
    LET created == db[k] = Missing IN
    SigWrite("save", k,
             [x \in LockKeys |-> IF x = k \/ (created /\ SameRow(x, k)) THEN value
                                 ELSE db[x]],
             post_save(k, created), outcome)

\* instance.delete() of an existing row
SigDelete(k, outcome) ==
    /\ db[k] # Missing
    /\ SigWrite("delete", k,
                [x \in LockKeys |-> IF SameRow(x, k) THEN Missing ELSE db[x]],
                post_delete(k), outcome)

NextSignals ==
    \/ SetEventLoop
    \/ \E k \in SignalKeys, v \in Values, o \in Outcomes : SigSave(k, v, o)
    \/ \E k \in SignalKeys, o \in Outcomes : SigDelete(k, o)
    \/ \E s \in Sessions : Mount(s)
    \/ \E s \in Sessions : HandleInfo(s)

SpecSignals == Init /\ [][NextSignals]_vars

\* the event the claim names for the write of the step
ExpectedSignal ==
    [chan |-> "alive:" \o ev'.key[1],
     action |-> IF ev'.op = "delete" THEN "item_deleted"
                ELSE IF db[ev'.key] = Missing THEN "item_created" ELSE "state_changed",
     key |-> <<>>, by |-> None, item_id |-> ev'.key[2]]

is_keeper(s) == s = 1
hand_is_player(s) == s # 1

\* pks of CharacterCard rows: those that exist, and the one keeper creation makes
CharacterCards == RowIds
CreatedCard == NumRows + 1

\* card_id and die_index values of an assign_die / unassign_die payload
DieIndexes == {0}
PayloadCardIds == 1..(NumRows + 1)

\* what the closure of handler op decides after Situation.objects.get, and the values
\* it keeps from the fetch: go = it goes on to write
sit_fetch(op, sit, arg) ==
    [at |-> op, arg |-> arg,
     originals |-> sit.cards,
     assignments |-> sit.assignments,
     go |-> CASE op = "roll_situation" -> sit.dice = <<>> /\ sit.cards # {}
              [] op \in {"toggle_hand_situation", "remove_situation_card",
                          "keeper_add_card", "save_create", "cancel_map_situation"}
                     -> sit.dice = <<>>
              [] op = "assign_die" -> sit.dice # <<>> /\ ~sit.dice_assigned
              [] op = "unassign_die" -> ~sit.dice_assigned
              [] op = "lock_dice" ->
                     /\ sit.dice # <<>> /\ ~sit.dice_assigned
                     /\ ~(Cardinality(DOMAIN sit.assignments) < Len(sit.situation_cards))]

\* the rows after the writes of the closure of job.at
sit_write(sit, job, dice) ==
    CASE job.at = "roll_situation" ->
             [sit EXCEPT !.dice = dice,
                         !.situation_cards = @ \o SetToSeq(job.originals),
                         !.cards = {}]
      [] job.at = "toggle_hand_situation" ->
             [sit EXCEPT !.cards = IF job.arg \in @ THEN @ \ {job.arg}
                                   ELSE @ \cup {job.arg}]
      [] job.at = "remove_situation_card" -> [sit EXCEPT !.cards = @ \ {job.arg}]
      [] job.at = "keeper_add_card" -> [sit EXCEPT !.cards = @ \cup {job.arg}]
      [] job.at = "save_create" -> [sit EXCEPT !.cards = @ \cup {CreatedCard}]
      [] job.at = "cancel_map_situation" ->
             [sit EXCEPT !.exists = FALSE, !.cards = {}, !.situation_cards = <<>>]
      [] job.at = "assign_die" ->
             [sit EXCEPT !.assignments =
                 [c \in DOMAIN job.assignments \cup {job.arg[1]} |->
                     IF c = job.arg[1] THEN job.arg[2] ELSE job.assignments[c]]]
      [] job.at = "unassign_die" ->
             [sit EXCEPT !.assignments =
                 [c \in DOMAIN job.assignments \ {job.arg} |-> job.assignments[c]]]
      [] job.at = "lock_dice" -> [sit EXCEPT !.dice_assigned = TRUE]

DiceFrame == UNCHANGED <<regVars, raceVars, sessVars, cards, txn, levels, card_order>>

\* handle_event up to the end of the closure's checks: situation_id is the id the
\* handler uses, guard its further condition on the payload and the context
StartJob(s, op, arg, situation_id, guard) ==
    /\ game.job[s] = NoJob
    /\ situation_id # None
    /\ guard
    /\ game.sit.exists
    /\ game' = [game EXCEPT !.job[s] = sit_fetch(op, game.sit, arg)]
    /\ DiceFrame

RollSituation(s) == StartJob(s, "roll_situation", None, game.ctx[s].situation_id, TRUE)

ToggleHandSituation(s, card_id) ==
    StartJob(s, "toggle_hand_situation", card_id, game.ctx[s].situation_id,
             hand_is_player(s) /\ game.ctx[s].situation_dice = <<>>)

\* the situation id comes with the payload
RemoveSituationCard(s, card_id) ==
    StartJob(s, "remove_situation_card", card_id, 1, game.ctx[s].situation_dice = <<>>)

KeeperAddCard(s, card_id) ==
    StartJob(s, "keeper_add_card", card_id, game.ctx[s].situation_id, is_keeper(s))

\* save_create with keeper_creating: _link_card
SaveCreate(s) == StartJob(s, "save_create", None, game.ctx[s].situation_id, is_keeper(s))

CancelMapSituation(s) ==
    StartJob(s, "cancel_map_situation", None, game.ctx[s].situation_id,
             is_keeper(s) /\ game.ctx[s].situation_dice = <<>>)

AssignDie(s, card_id, die_index) ==
    StartJob(s, "assign_die", <<card_id, die_index>>, game.ctx[s].situation_id, TRUE)

UnassignDie(s, card_id) ==
    StartJob(s, "unassign_die", card_id, game.ctx[s].situation_id, TRUE)

LockDice(s) == StartJob(s, "lock_dice", None, game.ctx[s].situation_id, TRUE)

\* the closure's writes (none when its check said return, or when the row is gone
\* and the write raises), then the handler's refresh and its broadcast, which makes
\* the other sessions refresh
CompleteJob(s, dice) ==
    LET job == game.job[s]
        sit == IF job.go /\ game.sit.exists THEN sit_write(game.sit, job, dice)
               ELSE game.sit
    IN
    /\ job # NoJob
    /\ Len(dice) = (IF job.at = "roll_situation" /\ job.go
                        THEN Cardinality(job.originals) + 1 ELSE 0)
    /\ game' = [game EXCEPT
           !.sit = sit,
           !.job[s] = NoJob,
           !.ctx = [t \in Sessions |->
                       IF t = s
                           THEN [situation_id |->
                                     IF job.at = "cancel_map_situation" \/ ~sit.exists
                                         THEN None ELSE 1,
                                 situation_dice |->
                                     IF job.at = "cancel_map_situation" THEN <<>>
                                     ELSE sit.dice,
                                 notified |-> game.ctx[t].notified]
                       ELSE [game.ctx[t] EXCEPT !.notified = TRUE]],
           !.last = [op |-> job.at \o "_done", sid |-> s, arg |-> job.arg]]
    /\ DiceFrame

\* handle_info of a session that was sent the broadcast: its context is refreshed
DiceHandleInfo(s) ==
    /\ game.ctx[s].notified
    /\ game.job[s] = NoJob
    /\ game' = [game EXCEPT
           !.ctx[s] = [situation_id |-> IF game.sit.exists THEN game.ctx[s].situation_id
                                       ELSE None,
                       situation_dice |-> game.sit.dice,
                       notified |-> FALSE],
           !.last = [op |-> "handle_info", sid |-> s, arg |-> None]]
    /\ DiceFrame

Rolls == UNION {[1..n -> 1..NumFaces] : n \in 0..(NumRows + 2)}

NextDice ==
    \/ \E s \in Sessions : RollSituation(s)
    \/ \E s \in Sessions, c \in CharacterCards : ToggleHandSituation(s, c)
    \/ \E s \in Sessions, c \in CharacterCards : RemoveSituationCard(s, c)
    \/ \E s \in Sessions, c \in CharacterCards : KeeperAddCard(s, c)
    \/ \E s \in Sessions : SaveCreate(s)
    \/ \E s \in Sessions : CancelMapSituation(s)
    \/ \E s \in Sessions, dice \in Rolls : CompleteJob(s, dice)
    \/ \E s \in Sessions : DiceHandleInfo(s)

SpecDice == Init /\ [][NextDice]_vars

\* C34: a situation's dice are rolled at most once. Once its dice list is non-empty
\* it never changes again and no further snapshot SituationCards are created, also
\* when the roll_situation handlers of two sessions run at the same time.
C34_RolledOnce ==
    [][game.sit.dice # <<>>
           => /\ game'.sit.dice = game.sit.dice
              /\ game'.sit.exists => game'.sit.situation_cards = game.sit.situation_cards]_vars

\* C35: once a situation's dice have been rolled the situation is frozen: the writes
\* of toggle_hand_situation, remove_situation_card, keeper_add_card, keeper card
\* creation and cancel_map_situation leave its card membership as it was and do not
\* delete it.
C35_FrozenAfterRoll ==
    [][(game.sit.dice # <<>>
            /\ game'.last.op \in {"toggle_hand_situation_done",
                                  "remove_situation_card_done", "keeper_add_card_done",
                                  "save_create_done", "cancel_map_situation_done"})
           => /\ game'.sit.cards = game.sit.cards
              /\ game'.sit.exists]_vars

(***************************************************************************)
(* SpecAssign: the dice of a rolled situation are assigned to its snapshot   *)
(* cards and the assignment is locked.                                       *)
(***************************************************************************)
NextAssign ==
    \/ \E s \in Sessions, c \in CharacterCards : KeeperAddCard(s, c)
    \/ \E s \in Sessions : RollSituation(s)
    \/ \E s \in Sessions, c \in PayloadCardIds, i \in DieIndexes : AssignDie(s, c, i)
    \/ \E s \in Sessions, c \in PayloadCardIds : UnassignDie(s, c)
    \/ \E s \in Sessions : LockDice(s)
    \/ \E s \in Sessions, dice \in Rolls : CompleteJob(s, dice)
    \/ \E s \in Sessions : DiceHandleInfo(s)

SpecAssign == Init /\ [][NextAssign]_vars

\* C36: dice_assigned becomes true only in a state where the dice have been rolled and
\* every snapshot card of the situation has a die assigned to it, and once
\* dice_assigned is true no assign_die or unassign_die changes the assignments.
C36_LockedWhenAllAssigned ==
    [][/\ (~game.sit.dice_assigned /\ game'.sit.dice_assigned)
              => /\ game'.sit.dice # <<>>
                 /\ \A c \in 1..Len(game'.sit.situation_cards) :
                        c \in DOMAIN game'.sit.assignments
       /\ game.sit.dice_assigned => game'.sit.assignments = game.sit.assignments]_vars

====
